---- MODULE Spec2Model ----
(***************************************************************************)
(* A model of the Event Data Recorder of road-recorder: the per-sensor     *)
(* EDRBuffer (src/edr/edr_buffer.py), the EDRSensor forwarding layer       *)
(* (src/edr/edr_sensor.py) and the EDR recorder (src/edr/edr.py).          *)
(*                                                                         *)
(* Time is discrete: a timestamp is a whole number of seconds.  A sample    *)
(* rate is a fraction [num, den] of samples per second, so that rates      *)
(* below 1 Hz give sample intervals of several seconds.  Python's None is  *)
(* the empty sequence and a value v that is set is the sequence <<v>>.     *)
(***************************************************************************)
EXTENDS Integers, Sequences, FiniteSets, TLC

VARIABLES
    buffer,       \* SpecBuffer: one EDRBuffer driven directly through its methods
    edr,          \* the EDR object: sensors, triggered, event_timestamp, reason
    edr_buffer,   \* sensor id -> the EDRBuffer of that EDRSensor
    now,          \* the value time.time() returns
    written,      \* the files written by the most recent call, in order
    last,         \* the most recent call: operation, sensor, timestamp, exception, branch
    hist,         \* the on_data calls made on `buffer` since construction (see hist_on_data)
    pc,           \* thread -> position in the handler it is running
    loc           \* thread -> the handler's local variables

vars == <<buffer, edr, edr_buffer, now, written, last, hist, pc, loc>>

----------------------------------------------------------------------------
(* Bounds of the model *)

\* Largest timestamp the clock reaches or a caller supplies.
MaxTime == 4

\* Largest value the clock reaches where the threads' steps interleave.
MaxThreadTime == 2

\* A save may be hit by an I/O fault at its k-th file-system call, k <= MaxFault.
MaxFault == 3

\* Largest number of lidar entries, and of camera entries, in a sensor
\* configuration file.
MaxEntries == 2

\* Largest coordinate of the grid the polygons' vertices lie on.
MaxCoord == 3

\* Largest value the clock reaches where the EDR's registry is driven freely.
MaxRegistryTime == 2

\* Largest number of vulnerable road users among the actors of the world.
MaxVrus == 2

\* Largest x-coordinate of the grid where has_collided is given any vertex
\* sequences.
MaxPolyCoord == 1

----------------------------------------------------------------------------
(* Values *)

None == <<>>

Some(v) == <<v>>

Min(a, b) == IF a <= b THEN a ELSE b

Timestamps == 0..MaxTime

\* The opaque payloads producers hand to on_data.
DataValues == {"d"}

\* A sample rate of num/den Hz.
Hz(num, den) == [num |-> num, den |-> den]

\* The constructor arguments (preevent_time, postevent_time, max_sample_rate)
\* the buffer of SpecBuffer is built with: 2 s at 1 Hz holds 2 samples,
\* 3 s at 0.5 Hz has the fractional product 1.5, and a rate of 0 Hz takes
\* the branch of __init__ for max_sample_rate <= 0.0.
BufferArgs == { <<2, 1, Hz(1, 1)>>, <<3, 1, Hz(1, 2)>>, <<2, 1, Hz(0, 1)>> }

\* The sensor objects of Spec and the arguments each was constructed with:
\* one pre-event and one post-event time for all, as World.restart passes
\* them, and each sensor kind's own rate.
SensorIds == {1, 2}

SensorArgs(s) == IF s = 1 THEN <<2, 1, Hz(1, 1)>> ELSE <<2, 1, Hz(1, 2)>>

\* The reasons callers of EDR.on_event_trigger give.
Reasons == {"Manual Trigger", "Collision"}

\* The call record kept in `last`.
Call(op, s, t, exc, ret) == [op |-> op, s |-> s, t |-> t, exc |-> exc, ret |-> ret]

----------------------------------------------------------------------------
(* The file system as save_data sees it: the directories and files written *)
(* so far, and the number of calls left until one raises OSError (0: none  *)
(* ever does).                                                             *)

FsRaises(fs) == fs.fault = 1

FsStep(fs) == [fs EXCEPT !.fault = IF @ > 0 THEN @ - 1 ELSE 0]

FsWrite(fs, entry) == [FsStep(fs) EXCEPT !.written = Append(@, entry)]

----------------------------------------------------------------------------
(* EDRBuffer *)

\* EDRBuffer.__init__
EDRBuffer(sensor_id, preevent_time, postevent_time, max_sample_rate) ==
    [ sensor_id        |-> sensor_id,
      preevent_time    |-> preevent_time,
      postevent_time   |-> postevent_time,
      max_sample_rate  |-> max_sample_rate,
      \* 1.0 if max_sample_rate <= 0.0 else 1.0 / max_sample_rate
      sample_interval  |-> IF max_sample_rate.num <= 0 THEN 1
                           ELSE max_sample_rate.den \div max_sample_rate.num,
      \* deque(maxlen=int(preevent_time * max_sample_rate))
      maxlen           |-> (preevent_time * max_sample_rate.num) \div max_sample_rate.den,
      preevent_buffer  |-> <<>>,
      postevent_buffer |-> <<>>,
      event_timestamp  |-> None,
      start_timestamp  |-> None,
      end_timestamp    |-> None,
      next_timestamp   |-> None,
      saving           |-> FALSE ]

\* A bounded queue that turns the new item away when full.
deque_append_keep_oldest(q, maxlen, item) ==
    IF Len(q) >= maxlen THEN q ELSE Append(q, item)

\* collections.deque(maxlen=n).append: a full deque drops its oldest item.
deque_append(q, maxlen, item) ==
    IF maxlen = 0 THEN q
    ELSE IF Len(q) >= maxlen THEN Append(Tail(q), item)
    ELSE Append(q, item)

\* A clear that keeps the rate limit's memory.
EDRBuffer_clear_keep_rate(b) ==
    [b EXCEPT !.preevent_buffer = <<>>,
              !.postevent_buffer = <<>>,
              !.event_timestamp = None,
              !.start_timestamp = None,
              !.end_timestamp = None]

\* A clear that resets the event fields and keeps the post-event queue.
EDRBuffer_clear_keep_post(b) ==
    [b EXCEPT !.preevent_buffer = <<>>,
              !.event_timestamp = None,
              !.start_timestamp = None,
              !.end_timestamp = None,
              !.next_timestamp = None]

\* EDRBuffer.clear
EDRBuffer_clear(b) ==
    [b EXCEPT !.preevent_buffer = <<>>,
              !.postevent_buffer = <<>>,
              !.event_timestamp = None,
              !.start_timestamp = None,
              !.end_timestamp = None,
              !.next_timestamp = None]

\* on_data with a window that excludes its own end.
on_data_branch_open_end(b, timestamp) ==
    IF b.saving THEN "saving"
    ELSE IF b.end_timestamp # None /\ timestamp >= b.end_timestamp[1] THEN "finished"
    ELSE IF b.next_timestamp # None /\ timestamp < b.next_timestamp[1] THEN "too_soon"
    ELSE IF b.event_timestamp = None THEN "preevent"
    ELSE "postevent"

\* The branch EDRBuffer.on_data takes: the three early returns, else the queue
\* the item goes to.
on_data_branch(b, timestamp) ==
    IF b.saving THEN "saving"
    ELSE IF b.end_timestamp # None /\ timestamp > b.end_timestamp[1] THEN "finished"
    ELSE IF b.next_timestamp # None /\ timestamp < b.next_timestamp[1] THEN "too_soon"
    ELSE IF b.event_timestamp = None THEN "preevent"
    ELSE "postevent"

\* on_data that remembers the sample's own time as the next allowed one.
EDRBuffer_on_data_no_interval(b, timestamp, data) ==
    LET branch == on_data_branch(b, timestamp)
        item   == <<timestamp, data>>
        b1     == [b EXCEPT !.next_timestamp = Some(timestamp)]
    IN  IF branch = "preevent"
        THEN [b1 EXCEPT !.preevent_buffer = deque_append(@, b.maxlen, item)]
        ELSE IF branch = "postevent"
        THEN [b1 EXCEPT !.postevent_buffer = Append(@, item)]
        ELSE b

\* EDRBuffer.on_data
EDRBuffer_on_data(b, timestamp, data) ==
    LET branch == on_data_branch(b, timestamp)
        item   == <<timestamp, data>>
        b1     == [b EXCEPT !.next_timestamp = Some(timestamp + b.sample_interval)]
    IN  IF branch = "preevent"
        THEN [b1 EXCEPT !.preevent_buffer = deque_append(@, b.maxlen, item)]
        ELSE IF branch = "postevent"
        THEN [b1 EXCEPT !.postevent_buffer = Append(@, item)]
        ELSE b

\* EDRBuffer.on_event_trigger.  `timestamp` is the Python value passed: None
\* or a time.  The assert raises on a buffer already triggered, and
\* `timestamp - self.preevent_time` raises TypeError when timestamp is None.
EDRBuffer_on_event_trigger(b, timestamp) ==
    IF b.event_timestamp # None
    THEN [buf |-> b, exc |-> "AssertionError"]
    ELSE IF timestamp = None
    THEN [buf |-> b, exc |-> "TypeError"]
    ELSE [buf |-> [b EXCEPT !.event_timestamp = timestamp,
                            !.start_timestamp = Some(timestamp[1] - b.preevent_time),
                            !.end_timestamp = Some(timestamp[1] + b.postevent_time)],
          exc |-> ""]

\* os.makedirs(path) of EDRBuffer.save_data: the sensor's own directory.
sensor_dir(b) == [kind |-> "makedirs", sensor_id |-> b.sensor_id]

\* EDRBuffer._save_data_item: the file one item is saved to.
save_data_item(b, item) ==
    [ kind      |-> "item",
      sensor_id |-> b.sensor_id,
      timestamp |-> item[1],
      offset    |-> item[1] - b.event_timestamp[1] ]

\* The filter of one of save_data's two loops: comparing with None raises.
save_filter_raises(b, which) ==
    IF which = "pre" THEN b.start_timestamp = None ELSE b.end_timestamp = None

\* The filters with the window's two ends excluded.
save_filter_strict(b, which, item) ==
    IF which = "pre" THEN item[1] > b.start_timestamp[1]
    ELSE item[1] < b.end_timestamp[1]

\* The filters with the pre-event loop writing every item of the ring.
save_filter_post_only(b, which, item) ==
    IF which = "pre" THEN TRUE
    ELSE item[1] <= b.end_timestamp[1]

\* if item[0] >= self.start_timestamp / if item[0] <= self.end_timestamp
save_filter(b, which, item) ==
    IF which = "pre" THEN item[1] >= b.start_timestamp[1]
    ELSE item[1] <= b.end_timestamp[1]

\* One of the two for-loops of EDRBuffer.save_data, from item i of `items` on.
RECURSIVE save_loop(_, _, _, _, _)
save_loop(b, items, which, i, fs) ==
    IF i > Len(items) THEN [fs |-> fs, exc |-> ""]
    ELSE IF save_filter_raises(b, which) THEN [fs |-> fs, exc |-> "TypeError"]
    ELSE IF ~save_filter(b, which, items[i]) THEN save_loop(b, items, which, i + 1, fs)
    ELSE IF FsRaises(fs) THEN [fs |-> FsStep(fs), exc |-> "OSError"]
    ELSE save_loop(b, items, which, i + 1, FsWrite(fs, save_data_item(b, items[i])))

\* EDRBuffer.save_data: saving is set, the directory made, the two queues
\* written, saving reset.  An exception leaves at the statement that raised.
EDRBuffer_save_data(b, fs) ==
    LET b1 == [b EXCEPT !.saving = TRUE] IN
    IF FsRaises(fs) THEN [buf |-> b1, fs |-> FsStep(fs), exc |-> "OSError"]
    ELSE LET pre == save_loop(b1, b1.preevent_buffer, "pre", 1, FsWrite(fs, sensor_dir(b1))) IN
         IF pre.exc # "" THEN [buf |-> b1, fs |-> pre.fs, exc |-> pre.exc]
         ELSE LET post == save_loop(b1, b1.postevent_buffer, "post", 1, pre.fs) IN
              IF post.exc # "" THEN [buf |-> b1, fs |-> post.fs, exc |-> post.exc]
              ELSE [buf |-> [b1 EXCEPT !.saving = FALSE], fs |-> post.fs, exc |-> ""]

----------------------------------------------------------------------------
(* EDRSensor: the thin forwards to the sensor's buffer *)

\* EDRSensor.clear_event
EDRSensor_clear_event(b) == EDRBuffer_clear(b)

\* EDRSensor.on_event_trigger
EDRSensor_on_event_trigger(b, timestamp) == EDRBuffer_on_event_trigger(b, timestamp)

\* EDRSensor.save_data
EDRSensor_save_data(b, fs) == EDRBuffer_save_data(b, fs)

----------------------------------------------------------------------------
(* EDR.  A method takes the EDR object e and the buffers bufs of all       *)
(* sensor objects, and gives what it leaves of them and the exception it   *)
(* raised ("" when it returned).                                           *)

\* EDR.__init__
EDR == [sensors |-> <<>>, triggered |-> FALSE, event_timestamp |-> None, reason |-> ""]

\* EDR.has_triggered
EDR_has_triggered(e) == e.triggered

\* EDR.add_sensor
EDR_add_sensor(e, sensor) == [e EXCEPT !.sensors = Append(@, sensor)]

\* for sensor in self.sensors: sensor.clear_event()
RECURSIVE clear_sensors(_, _, _)
clear_sensors(bufs, sensors, i) ==
    IF i > Len(sensors) THEN bufs
    ELSE clear_sensors([bufs EXCEPT ![sensors[i]] = EDRSensor_clear_event(@)], sensors, i + 1)

\* clear_event without the has_triggered check.
EDR_clear_event_unguarded(e, bufs) ==
    [ edr  |-> [e EXCEPT !.event_timestamp = None, !.triggered = FALSE, !.reason = ""],
      bufs |-> clear_sensors(bufs, e.sensors, 1) ]

\* EDR.clear_event
EDR_clear_event(e, bufs) ==
    IF ~EDR_has_triggered(e) THEN [edr |-> e, bufs |-> bufs]
    ELSE [ edr  |-> [e EXCEPT !.event_timestamp = None, !.triggered = FALSE, !.reason = ""],
           bufs |-> clear_sensors(bufs, e.sensors, 1) ]

\* clear that leaves the event's time in place.
EDR_clear_keeps_timestamp(e, bufs) ==
    [ edr  |-> [EDR_clear_event([e EXCEPT !.sensors = <<>>], bufs).edr
                   EXCEPT !.event_timestamp = e.event_timestamp],
      bufs |-> bufs ]

\* EDR.clear
EDR_clear(e, bufs) == EDR_clear_event([e EXCEPT !.sensors = <<>>], bufs)

\* for sensor in self.sensors: sensor.on_event_trigger(self.event_timestamp)
RECURSIVE trigger_sensors(_, _, _, _)
trigger_sensors(bufs, sensors, i, timestamp) ==
    IF i > Len(sensors) THEN [bufs |-> bufs, exc |-> ""]
    ELSE LET r == EDRSensor_on_event_trigger(bufs[sensors[i]], timestamp) IN
         IF r.exc # "" THEN [bufs |-> bufs, exc |-> r.exc]
         ELSE trigger_sensors([bufs EXCEPT ![sensors[i]] = r.buf], sensors, i + 1, timestamp)

\* on_event_trigger without the has_triggered check.
EDR_on_event_trigger_unguarded(e, bufs, reason, time) ==
    LET e1 == [e EXCEPT !.triggered = TRUE,
                        !.event_timestamp = Some(time),
                        !.reason = reason]
        r  == trigger_sensors(bufs, e1.sensors, 1, e1.event_timestamp)
    IN  [edr |-> e1, bufs |-> r.bufs, exc |-> r.exc]

\* EDR.on_event_trigger, called when time.time() is `time`
EDR_on_event_trigger(e, bufs, reason, time) ==
    IF EDR_has_triggered(e) THEN [edr |-> e, bufs |-> bufs, exc |-> ""]
    ELSE LET e1 == [e EXCEPT !.triggered = TRUE,
                             !.event_timestamp = Some(time),
                             !.reason = reason]
             r  == trigger_sensors(bufs, e1.sensors, 1, e1.event_timestamp)
         IN  [edr |-> e1, bufs |-> r.bufs, exc |-> r.exc]

\* os.makedirs(path) of EDR.save_data: the event's own directory.
event_dir(e) == [kind |-> "makedirs", event |-> e.event_timestamp[1]]

\* reason.txt
reason_file(e) == [kind |-> "reason", text |-> e.reason]

\* for sensor in self.sensors: sensor.save_data(path)
RECURSIVE save_sensors(_, _, _, _)
save_sensors(bufs, sensors, i, fs) ==
    IF i > Len(sensors) THEN [bufs |-> bufs, fs |-> fs, exc |-> ""]
    ELSE LET r == EDRSensor_save_data(bufs[sensors[i]], fs)
             bufs1 == [bufs EXCEPT ![sensors[i]] = r.buf]
         IN  IF r.exc # "" THEN [bufs |-> bufs1, fs |-> r.fs, exc |-> r.exc]
             ELSE save_sensors(bufs1, sensors, i + 1, r.fs)

\* save_data that returns to Idle before it saves the sensors.
EDR_save_data_clear_first(e, bufs, fs) ==
    IF e.event_timestamp = None
    THEN [edr |-> e, bufs |-> bufs, fs |-> fs, exc |-> "TypeError"]
    ELSE IF FsRaises(fs)
    THEN [edr |-> e, bufs |-> bufs, fs |-> FsStep(fs), exc |-> "OSError"]
    ELSE LET fs1 == FsWrite(fs, event_dir(e)) IN
         IF FsRaises(fs1)
         THEN [edr |-> e, bufs |-> bufs, fs |-> FsStep(fs1), exc |-> "OSError"]
         ELSE LET c == EDR_clear_event(e, bufs)
                  r == save_sensors(c.bufs, e.sensors, 1, FsWrite(fs1, reason_file(e)))
              IN  [edr |-> c.edr, bufs |-> r.bufs, fs |-> r.fs, exc |-> r.exc]

\* EDR.save_data: datetime.fromtimestamp(None) raises TypeError; the event
\* directory, reason.txt, every sensor's save, then clear_event.
EDR_save_data(e, bufs, fs) ==
    IF e.event_timestamp = None
    THEN [edr |-> e, bufs |-> bufs, fs |-> fs, exc |-> "TypeError"]
    ELSE IF FsRaises(fs)
    THEN [edr |-> e, bufs |-> bufs, fs |-> FsStep(fs), exc |-> "OSError"]
    ELSE LET fs1 == FsWrite(fs, event_dir(e)) IN
         IF FsRaises(fs1)
         THEN [edr |-> e, bufs |-> bufs, fs |-> FsStep(fs1), exc |-> "OSError"]
         ELSE LET r == save_sensors(bufs, e.sensors, 1, FsWrite(fs1, reason_file(e))) IN
              IF r.exc # "" THEN [edr |-> e, bufs |-> r.bufs, fs |-> r.fs, exc |-> r.exc]
              ELSE LET c == EDR_clear_event(e, r.bufs) IN
                   [edr |-> c.edr, bufs |-> c.bufs, fs |-> r.fs, exc |-> ""]

----------------------------------------------------------------------------
(* SpecBuffer: one EDRBuffer, constructed with any of the constructor      *)
(* arguments, and driven by any sequence of calls of its four methods with *)
(* caller-supplied timestamps.                                              *)

\* The record of on_data calls: while every call since construction was an
\* on_data call whose timestamp was at least sample_interval after the one
\* before, `calls` holds the items passed, in order; after any other call
\* ok is FALSE for good.
hist_on_data(h, b, item) ==
    IF h.ok /\ (h.calls = <<>> \/ item[1] >= h.calls[Len(h.calls)][1] + b.sample_interval)
    THEN [ok |-> TRUE, calls |-> Append(h.calls, item)]
    ELSE [ok |-> FALSE, calls |-> <<>>]

hist_other == [ok |-> FALSE, calls |-> <<>>]

InitBuffer ==
    /\ buffer \in { EDRBuffer(0, a[1], a[2], a[3]) : a \in BufferArgs }
    /\ edr = EDR
    /\ edr_buffer = <<>>
    /\ now = 0
    /\ written = <<>>
    /\ last = Call("init", 0, 0, "", "")
    /\ hist = [ok |-> TRUE, calls |-> <<>>]
    /\ pc = <<>>
    /\ loc = <<>>

BufferOnData ==
    \E timestamp \in Timestamps, data \in DataValues :
        /\ buffer' = EDRBuffer_on_data(buffer, timestamp, data)
        /\ last' = Call("on_data", 0, timestamp, "", on_data_branch(buffer, timestamp))
        /\ hist' = hist_on_data(hist, buffer, <<timestamp, data>>)
        /\ written' = <<>>
        /\ UNCHANGED <<edr, edr_buffer, now, pc, loc>>

BufferOnEventTrigger ==
    \E timestamp \in Timestamps :
        LET r == EDRBuffer_on_event_trigger(buffer, Some(timestamp)) IN
        /\ buffer' = r.buf
        /\ last' = Call("on_event_trigger", 0, timestamp, r.exc, "")
        /\ hist' = hist_other
        /\ written' = <<>>
        /\ UNCHANGED <<edr, edr_buffer, now, pc, loc>>

BufferClear ==
    /\ buffer' = EDRBuffer_clear(buffer)
    /\ last' = Call("clear", 0, 0, "", "")
    /\ hist' = hist_other
    /\ written' = <<>>
    /\ UNCHANGED <<edr, edr_buffer, now, pc, loc>>

BufferSaveData ==
    \E fault \in 0..MaxFault :
        LET r == EDRBuffer_save_data(buffer, [written |-> <<>>, fault |-> fault]) IN
        /\ buffer' = r.buf
        /\ written' = r.fs.written
        /\ last' = Call("save_data", 0, fault, r.exc, "")
        /\ hist' = hist_other
        /\ UNCHANGED <<edr, edr_buffer, now, pc, loc>>

NextBuffer ==
    \/ BufferOnData
    \/ BufferOnEventTrigger
    \/ BufferClear
    \/ BufferSaveData

SpecBuffer == InitBuffer /\ [][NextBuffer]_vars

----------------------------------------------------------------------------
(* Spec: a session of World with the EDR enabled, on one thread.  The two  *)
(* sensors World.restart registers are sampled together, as World.tick     *)
(* does, and the EDR is triggered, saved and cleared by the session's      *)
(* callers at any time.                                                    *)

\* World.restart with the EDR enabled: self.edr.clear(), then a new vehicle
\* state sensor and a new perception sensor are constructed and added.
RECURSIVE add_sensors(_, _, _)
add_sensors(e, sensors, i) ==
    IF i > Len(sensors) THEN e
    ELSE add_sensors(EDR_add_sensor(e, sensors[i]), sensors, i + 1)

NewSensors ==
    [s \in SensorIds |-> EDRBuffer(s, SensorArgs(s)[1], SensorArgs(s)[2], SensorArgs(s)[3])]

World_restart(e, bufs) ==
    LET r == EDR_clear(e, bufs) IN
    [edr |-> add_sensors(r.edr, <<1, 2>>, 1), bufs |-> NewSensors]

Init ==
    /\ buffer = EDRBuffer(0, 0, 0, Hz(0, 1))
    /\ edr = World_restart(EDR, NewSensors).edr
    /\ edr_buffer = World_restart(EDR, NewSensors).bufs
    /\ now = 0
    /\ written = <<>>
    /\ last = Call("init", 0, 0, "", "")
    /\ hist = hist_other
    /\ pc = <<>>
    /\ loc = <<>>

\* The clock advances.
Tick ==
    /\ now < MaxTime
    /\ now' = now + 1
    /\ last' = Call("tick", 0, now + 1, "", "")
    /\ written' = <<>>
    /\ UNCHANGED <<buffer, edr, edr_buffer, hist, pc, loc>>

\* World.tick's generate_vehicle_state_data and generate_perception_data:
\* each sensor object stamps a sample with time.time() and hands it to its
\* buffer.
GenerateData ==
    \E data \in DataValues :
        /\ edr_buffer' = [s \in SensorIds |-> EDRBuffer_on_data(edr_buffer[s], now, data)]
        /\ last' = Call("on_data", 0, now, "", "")
        /\ written' = <<>>
        /\ UNCHANGED <<buffer, edr, now, hist, pc, loc>>

Restart ==
    LET r == World_restart(edr, edr_buffer) IN
    /\ edr' = r.edr
    /\ edr_buffer' = r.bufs
    /\ last' = Call("restart", 0, now, "", "")
    /\ written' = <<>>
    /\ UNCHANGED <<buffer, now, hist, pc, loc>>

ClearEvent ==
    LET r == EDR_clear_event(edr, edr_buffer) IN
    /\ edr' = r.edr
    /\ edr_buffer' = r.bufs
    /\ last' = Call("clear_event", 0, now, "", "")
    /\ written' = <<>>
    /\ UNCHANGED <<buffer, now, hist, pc, loc>>

OnEventTrigger ==
    \E reason \in Reasons :
        LET r == EDR_on_event_trigger(edr, edr_buffer, reason, now) IN
        /\ edr' = r.edr
        /\ edr_buffer' = r.bufs
        /\ last' = Call("on_event_trigger", 0, now, r.exc, reason)
        /\ written' = <<>>
        /\ UNCHANGED <<buffer, now, hist, pc, loc>>

SaveData ==
    \E fault \in 0..MaxFault :
        LET r == EDR_save_data(edr, edr_buffer, [written |-> <<>>, fault |-> fault]) IN
        /\ edr' = r.edr
        /\ edr_buffer' = r.bufs
        /\ written' = r.fs.written
        /\ last' = Call("save_data", 0, fault, r.exc, "")
        /\ UNCHANGED <<buffer, now, hist, pc, loc>>

Next ==
    \/ Tick
    \/ GenerateData
    \/ Restart
    \/ ClearEvent
    \/ OnEventTrigger
    \/ SaveData

Spec == Init /\ [][Next]_vars

----------------------------------------------------------------------------
(* The same session with its threads.  The tick thread runs the key        *)
(* handlers (trigger, save, clear); the simulator's callback threads run   *)
(* CollisionSensor._on_collision, which triggers the EDR, and a push       *)
(* sensor's _on_data_event, which hands a sample to its buffer.  A step    *)
(* is one statement of a handler, and the threads' steps interleave in any *)
(* order.  The file system does not fail here.  SpecTrigger runs the tick  *)
(* thread with the collision thread, SpecProducer the tick thread with     *)
(* the producer's.                                                         *)

Threads == {"tick", "collision", "producer"}

\* The threads that call EDR.on_event_trigger, and the reason each gives.
TriggerThreads == {"tick", "collision"}

TriggerReason(p) == IF p = "tick" THEN "Manual Trigger" ELSE "Collision"

\* The sensors whose samples arrive on a callback thread of the simulator
\* (sensor.listen), as an EDRCamera's do: here sensor 1.
PushSensors == {1}

\* A handler's local variables: the reason or timestamp it was called with,
\* the sensor and the queue it is at, its place in that queue, whether the
\* deque it iterates was mutated under it, and the exception it ended with.
Locals == [reason |-> "", t |-> 0, s |-> 0, i |-> 0, which |-> "", k |-> 0,
           mutated |-> FALSE, exc |-> ""]

InitThreads ==
    /\ buffer = EDRBuffer(0, 0, 0, Hz(0, 1))
    /\ edr = World_restart(EDR, NewSensors).edr
    /\ edr_buffer = World_restart(EDR, NewSensors).bufs
    /\ now = 0
    /\ written = <<>>
    /\ last = Call("init", 0, 0, "", "")
    /\ hist = hist_other
    /\ pc = [p \in Threads |-> "idle"]
    /\ loc = [p \in Threads |-> Locals]

\* A handler ends: by returning, or with the exception it raised.
Return(p, exc) ==
    /\ pc' = [pc EXCEPT ![p] = "idle"]
    /\ loc' = [loc EXCEPT ![p] = [Locals EXCEPT !.exc = exc]]

Goto(p, label) == pc' = [pc EXCEPT ![p] = label]

\* The clock advances.
ClockAdvance ==
    /\ now < MaxThreadTime
    /\ now' = now + 1
    /\ UNCHANGED <<buffer, edr, edr_buffer, written, last, hist, pc, loc>>

(* EDR.on_event_trigger, statement by statement *)

\* World.trigger_edr_event / CollisionSensor._on_collision call it.
TriggerCall(p) ==
    /\ p \in TriggerThreads
    /\ pc[p] = "idle"
    /\ Goto(p, "trigger_check")
    /\ loc' = [loc EXCEPT ![p] = [Locals EXCEPT !.reason = TriggerReason(p)]]
    /\ UNCHANGED <<buffer, edr, edr_buffer, now, written, last, hist>>

\* if self.has_triggered(): return
TriggerCheck(p) ==
    /\ pc[p] = "trigger_check"
    /\ IF EDR_has_triggered(edr)
       THEN Return(p, "")
       ELSE Goto(p, "trigger_set") /\ UNCHANGED loc
    /\ UNCHANGED <<buffer, edr, edr_buffer, now, written, last, hist>>

\* self.triggered = True
TriggerSet(p) ==
    /\ pc[p] = "trigger_set"
    /\ edr' = [edr EXCEPT !.triggered = TRUE]
    /\ Goto(p, "trigger_time")
    /\ UNCHANGED <<buffer, edr_buffer, now, written, last, hist, loc>>

\* self.event_timestamp = time.time()
TriggerTime(p) ==
    /\ pc[p] = "trigger_time"
    /\ edr' = [edr EXCEPT !.event_timestamp = Some(now)]
    /\ Goto(p, "trigger_reason")
    /\ UNCHANGED <<buffer, edr_buffer, now, written, last, hist, loc>>

\* self.reason = reason
TriggerReasonSet(p) ==
    /\ pc[p] = "trigger_reason"
    /\ edr' = [edr EXCEPT !.reason = loc[p].reason]
    /\ Goto(p, "trigger_sensors")
    /\ loc' = [loc EXCEPT ![p].i = 1]
    /\ UNCHANGED <<buffer, edr_buffer, now, written, last, hist>>

\* for sensor in self.sensors: sensor.on_event_trigger(self.event_timestamp)
TriggerSensor(p) ==
    /\ pc[p] = "trigger_sensors"
    /\ IF loc[p].i > Len(edr.sensors)
       THEN Return(p, "") /\ UNCHANGED edr_buffer
       ELSE LET s == edr.sensors[loc[p].i]
                r == EDRSensor_on_event_trigger(edr_buffer[s], edr.event_timestamp)
            IN  IF r.exc # ""
                THEN Return(p, r.exc) /\ UNCHANGED edr_buffer
                ELSE /\ edr_buffer' = [edr_buffer EXCEPT ![s] = r.buf]
                     /\ loc' = [loc EXCEPT ![p].i = @ + 1]
                     /\ UNCHANGED pc
    /\ UNCHANGED <<buffer, edr, now, written, last, hist>>

(* EDRBuffer.on_data on the producer's callback thread, statement by statement *)

\* _on_data_event: timestamp = time.time(); self.edr_buffer.on_data(timestamp, event)
DataCall(p) ==
    /\ p = "producer"
    /\ pc[p] = "idle"
    /\ \E s \in PushSensors :
          loc' = [loc EXCEPT ![p] = [Locals EXCEPT !.t = now, !.s = s]]
    /\ Goto(p, "data_saving")
    /\ UNCHANGED <<buffer, edr, edr_buffer, now, written, last, hist>>

\* if self.saving: return
DataSaving(p) ==
    /\ pc[p] = "data_saving"
    /\ IF edr_buffer[loc[p].s].saving
       THEN Return(p, "")
       ELSE Goto(p, "data_finished") /\ UNCHANGED loc
    /\ UNCHANGED <<buffer, edr, edr_buffer, now, written, last, hist>>

\* if self.end_timestamp is not None and timestamp > self.end_timestamp: return
DataFinished(p) ==
    /\ pc[p] = "data_finished"
    /\ LET b == edr_buffer[loc[p].s] IN
       IF b.end_timestamp # None /\ loc[p].t > b.end_timestamp[1]
       THEN Return(p, "")
       ELSE Goto(p, "data_too_soon") /\ UNCHANGED loc
    /\ UNCHANGED <<buffer, edr, edr_buffer, now, written, last, hist>>

\* if self.next_timestamp is not None and timestamp < self.next_timestamp: return
DataTooSoon(p) ==
    /\ pc[p] = "data_too_soon"
    /\ LET b == edr_buffer[loc[p].s] IN
       IF b.next_timestamp # None /\ loc[p].t < b.next_timestamp[1]
       THEN Return(p, "")
       ELSE Goto(p, "data_next") /\ UNCHANGED loc
    /\ UNCHANGED <<buffer, edr, edr_buffer, now, written, last, hist>>

\* self.next_timestamp = timestamp + self.sample_interval
DataNext(p) ==
    /\ pc[p] = "data_next"
    /\ edr_buffer' = [edr_buffer EXCEPT ![loc[p].s].next_timestamp =
                          Some(loc[p].t + edr_buffer[loc[p].s].sample_interval)]
    /\ Goto(p, "data_branch")
    /\ UNCHANGED <<buffer, edr, now, written, last, hist, loc>>

\* if self.event_timestamp is None: ... else: ...
DataBranch(p) ==
    /\ pc[p] = "data_branch"
    /\ loc' = [loc EXCEPT ![p].which =
                  IF edr_buffer[loc[p].s].event_timestamp = None THEN "pre" ELSE "post"]
    /\ Goto(p, "data_append")
    /\ UNCHANGED <<buffer, edr, edr_buffer, now, written, last, hist>>

\* The queue the tick thread's save_data is iterating, if any: <<sensor, which>>.
Iterating ==
    IF pc["tick"] = "save_items" THEN <<loc["tick"].s, loc["tick"].which>> ELSE <<0, "">>

\* self.preevent_buffer.append(item) or self.postevent_buffer.append(item),
\* as the branch was taken.  An append to the deque save_data is iterating
\* invalidates that iterator.
DataAppend(p) ==
    /\ pc[p] = "data_append"
    /\ LET s == loc[p].s
           which == loc[p].which
           item == <<loc[p].t, "d">>
       IN  /\ edr_buffer' =
                 IF which = "pre"
                 THEN [edr_buffer EXCEPT ![s].preevent_buffer =
                          deque_append(@, edr_buffer[s].maxlen, item)]
                 ELSE [edr_buffer EXCEPT ![s].postevent_buffer = Append(@, item)]
           /\ pc' = [pc EXCEPT ![p] = "idle"]
           /\ loc' = [q \in Threads |->
                        IF q = p THEN Locals
                        ELSE IF q = "tick" /\ Iterating = <<s, which>>
                        THEN [loc[q] EXCEPT !.mutated = TRUE]
                        ELSE loc[q]]
    /\ UNCHANGED <<buffer, edr, now, written, last, hist>>

(* EDR.save_data and EDRBuffer.save_data on the tick thread *)

\* World.save_edr_data calls it: the event directory and reason.txt.
SaveCall(p) ==
    /\ p = "tick"
    /\ pc[p] = "idle"
    /\ IF edr.event_timestamp = None
       THEN Return(p, "TypeError") /\ written' = <<>>
       ELSE /\ written' = <<event_dir(edr), reason_file(edr)>>
            /\ Goto(p, "save_sensors")
            /\ loc' = [loc EXCEPT ![p] = [Locals EXCEPT !.i = 1]]
    /\ UNCHANGED <<buffer, edr, edr_buffer, now, last, hist>>

\* for sensor in self.sensors: sensor.save_data(path), up to
\* self.saving = True; os.makedirs(path); then self.clear_event()
SaveSensor(p) ==
    /\ pc[p] = "save_sensors"
    /\ IF loc[p].i > Len(edr.sensors)
       THEN /\ Goto(p, "clear_check")
            /\ UNCHANGED <<edr_buffer, written, loc>>
       ELSE LET s == edr.sensors[loc[p].i] IN
            /\ edr_buffer' = [edr_buffer EXCEPT ![s].saving = TRUE]
            /\ written' = Append(written, sensor_dir(edr_buffer[s]))
            /\ loc' = [loc EXCEPT ![p].s = s, ![p].which = "pre", ![p].k = 1,
                                  ![p].mutated = FALSE]
            /\ Goto(p, "save_items")
    /\ UNCHANGED <<buffer, edr, now, last, hist>>

\* One turn of `for item in self.preevent_buffer` or of `for item in
\* self.postevent_buffer`: the iterator raises RuntimeError when the deque
\* was mutated under it; at the end of the first loop the second begins,
\* and at the end of the second self.saving = False.
SaveItem(p) ==
    /\ pc[p] = "save_items"
    /\ LET s == loc[p].s
           b == edr_buffer[s]
           items == IF loc[p].which = "pre" THEN b.preevent_buffer ELSE b.postevent_buffer
       IN  IF loc[p].mutated
           THEN Return(p, "RuntimeError") /\ UNCHANGED <<edr_buffer, written>>
           ELSE IF loc[p].k > Len(items)
           THEN IF loc[p].which = "pre"
                THEN /\ loc' = [loc EXCEPT ![p].which = "post", ![p].k = 1]
                     /\ UNCHANGED <<pc, edr_buffer, written>>
                ELSE /\ edr_buffer' = [edr_buffer EXCEPT ![s].saving = FALSE]
                     /\ loc' = [loc EXCEPT ![p].i = @ + 1, ![p].s = 0, ![p].which = "",
                                           ![p].k = 0]
                     /\ Goto(p, "save_sensors")
                     /\ UNCHANGED written
           ELSE IF save_filter_raises(b, loc[p].which)
           THEN Return(p, "TypeError") /\ UNCHANGED <<edr_buffer, written>>
           ELSE /\ written' = IF save_filter(b, loc[p].which, items[loc[p].k])
                              THEN Append(written, save_data_item(b, items[loc[p].k]))
                              ELSE written
                /\ loc' = [loc EXCEPT ![p].k = @ + 1]
                /\ UNCHANGED <<pc, edr_buffer>>
    /\ UNCHANGED <<buffer, edr, now, last, hist>>

(* EDR.clear_event on the tick thread *)

\* World.clear_edr_event calls it.
ClearEventCall(p) ==
    /\ p = "tick"
    /\ pc[p] = "idle"
    /\ Goto(p, "clear_check")
    /\ loc' = [loc EXCEPT ![p] = Locals]
    /\ UNCHANGED <<buffer, edr, edr_buffer, now, written, last, hist>>

\* if not self.has_triggered(): return
ClearCheck(p) ==
    /\ pc[p] = "clear_check"
    /\ IF ~EDR_has_triggered(edr)
       THEN Return(p, "")
       ELSE Goto(p, "clear_sensors") /\ loc' = [loc EXCEPT ![p] = [Locals EXCEPT !.i = 1]]
    /\ UNCHANGED <<buffer, edr, edr_buffer, now, written, last, hist>>

\* for sensor in self.sensors: sensor.clear_event(); then the EDR's own fields
ClearSensor(p) ==
    /\ pc[p] = "clear_sensors"
    /\ IF loc[p].i > Len(edr.sensors)
       THEN /\ edr' = [edr EXCEPT !.event_timestamp = None, !.triggered = FALSE,
                                  !.reason = ""]
            /\ Return(p, "")
            /\ UNCHANGED edr_buffer
       ELSE /\ edr_buffer' = [edr_buffer EXCEPT ![edr.sensors[loc[p].i]] =
                                  EDRSensor_clear_event(@)]
            /\ loc' = [loc EXCEPT ![p].i = @ + 1]
            /\ UNCHANGED <<pc, edr>>
    /\ UNCHANGED <<buffer, now, written, last, hist>>

\* SpecTrigger: the tick thread (trigger key, clear key) and the collision
\* callback's thread.
NextTrigger ==
    \/ ClockAdvance
    \/ \E p \in {"tick", "collision"} :
          \/ TriggerCall(p)
          \/ TriggerCheck(p)
          \/ TriggerSet(p)
          \/ TriggerTime(p)
          \/ TriggerReasonSet(p)
          \/ TriggerSensor(p)
          \/ ClearEventCall(p)
          \/ ClearCheck(p)
          \/ ClearSensor(p)

SpecTrigger == InitThreads /\ [][NextTrigger]_vars

\* SpecProducer: the tick thread (trigger, save and clear keys) and a push
\* sensor's callback thread.
NextProducer ==
    \/ ClockAdvance
    \/ \E p \in {"tick", "producer"} :
          \/ TriggerCall(p)
          \/ TriggerCheck(p)
          \/ TriggerSet(p)
          \/ TriggerTime(p)
          \/ TriggerReasonSet(p)
          \/ TriggerSensor(p)
          \/ DataCall(p)
          \/ DataSaving(p)
          \/ DataFinished(p)
          \/ DataTooSoon(p)
          \/ DataNext(p)
          \/ DataBranch(p)
          \/ DataAppend(p)
          \/ SaveCall(p)
          \/ SaveSensor(p)
          \/ SaveItem(p)
          \/ ClearEventCall(p)
          \/ ClearCheck(p)
          \/ ClearSensor(p)

SpecProducer == InitThreads /\ [][NextProducer]_vars

----------------------------------------------------------------------------
(* SpecLoader: World.restart with a sensor configuration file and the EDR  *)
(* disabled: the EDR is cleared and EDRLoader.load_sensors adds the        *)
(* sensors the file lists.                                                 *)

\* The labels a configuration entry carries; an entry without label is skipped.
Labels == {"", "front", "rear"}

\* One entry of "lidars3d" or "cameras": its label, and whether constructing
\* its sensor (EDRLidar3D(...), EDRCamera(...)) raises.
Entries == [label : Labels, fails : BOOLEAN]

EntryLists == UNION { [1..n -> Entries] : n \in 0..MaxEntries }

\* The sensor object constructed for an entry.
LoadedSensor(kind, entry) == [kind |-> kind, label |-> entry.label]

\* One of the two for-loops of load_sensors, from entry i on.
RECURSIVE load_entries(_, _, _, _)
load_entries(e, kind, entries, i) ==
    IF i > Len(entries) THEN [edr |-> e, exc |-> ""]
    ELSE IF entries[i].label = "" THEN load_entries(e, kind, entries, i + 1)
    ELSE IF entries[i].fails THEN [edr |-> e, exc |-> "RuntimeError"]
    ELSE load_entries(EDR_add_sensor(e, LoadedSensor(kind, entries[i])), kind, entries, i + 1)

\* EDRLoader.load_sensors: one try block around the open, the json.load and
\* both loops; `except: return False`.
EDRLoader_load_sensors(e, data) ==
    IF ~data.readable THEN [edr |-> e, ret |-> "False"]
    ELSE LET lidars == load_entries(e, "lidar3d", data.lidars, 1) IN
         IF lidars.exc # "" THEN [edr |-> lidars.edr, ret |-> "False"]
         ELSE LET cameras == load_entries(lidars.edr, "camera", data.cameras, 1) IN
              IF cameras.exc # "" THEN [edr |-> cameras.edr, ret |-> "False"]
              ELSE [edr |-> cameras.edr, ret |-> "True"]

\* The configuration files a session may be started with.
ConfigFiles == [readable : BOOLEAN, lidars : EntryLists, cameras : EntryLists]

\* The configuration file is there before the session starts; loc holds it.
InitLoader ==
    /\ buffer = EDRBuffer(0, 0, 0, Hz(0, 1))
    /\ edr = EDR
    /\ edr_buffer = <<>>
    /\ now = 0
    /\ written = <<>>
    /\ last = Call("init", 0, 0, "", "")
    /\ hist = hist_other
    /\ pc = <<>>
    /\ loc \in ConfigFiles

\* World.restart: self.edr.clear(), then loader.load_sensors(config, self.edr)
LoaderRestart ==
    LET r == EDRLoader_load_sensors(EDR_clear(edr, edr_buffer).edr, loc) IN
    /\ edr' = r.edr
    /\ last' = Call("load_sensors", 0, 0, "", r.ret)
    /\ UNCHANGED <<buffer, edr_buffer, now, written, hist, pc, loc>>

NextLoader == LoaderRestart

SpecLoader == InitLoader /\ [][NextLoader]_vars

----------------------------------------------------------------------------
(* SpecSAT: has_collided applied to two axis-aligned rectangles whose      *)
(* vertices lie on the grid.  A point or vector is <<x, y>>, a polygon its *)
(* points in sequence around it.                                           *)

\* edge_vector
edge_vector(point1, point2) == <<point2[1] - point1[1], point2[2] - point1[2]>>

\* poly_to_edges: each point paired with the point after it, the last with
\* the first.
poly_to_edges(poly) ==
    [i \in 1..Len(poly) |-> edge_vector(poly[i], poly[(i % Len(poly)) + 1])]

\* orthogonal
orthogonal(vector) == <<vector[2], -vector[1]>>

\* dot_product
dot_product(vector1, vector2) == vector1[1] * vector2[1] + vector1[2] * vector2[2]

\* min(...) and max(...) of a list of numbers
min(xs) == CHOOSE x \in {xs[i] : i \in 1..Len(xs)} : \A j \in 1..Len(xs) : x <= xs[j]

max(xs) == CHOOSE x \in {xs[i] : i \in 1..Len(xs)} : \A j \in 1..Len(xs) : x >= xs[j]

\* project
project(poly, axis) ==
    LET dots == [i \in 1..Len(poly) |-> dot_product(poly[i], axis)]
    IN  <<min(dots), max(dots)>>

\* An overlap test that counts touching projections as disjoint.
overlap_strict(projection1, projection2) ==
    min(projection1) < max(projection2) /\ min(projection2) < max(projection1)

\* overlap
overlap(projection1, projection2) ==
    min(projection1) <= max(projection2) /\ min(projection2) <= max(projection1)

\* The axes of the first polygon's edges alone.
sat_axes_first_only(poly1, poly2) ==
    LET edges == poly_to_edges(poly1)
    IN  [i \in 1..Len(edges) |-> orthogonal(edges[i])]

\* axes = [orthogonal(edge) for edge in poly_to_edges(poly1) + poly_to_edges(poly2)]
sat_axes(poly1, poly2) ==
    LET edges == poly_to_edges(poly1) \o poly_to_edges(poly2)
    IN  [i \in 1..Len(edges) |-> orthogonal(edges[i])]

\* The for-loop of has_collided from axis i on: the value returned and the
\* number of axes tested by then.
RECURSIVE sat_loop(_, _, _, _)
sat_loop(poly1, poly2, axes, i) ==
    IF i > Len(axes) THEN [ret |-> "True", tested |-> Len(axes)]
    ELSE IF ~overlap(project(poly1, axes[i]), project(poly2, axes[i]))
    THEN [ret |-> "False", tested |-> i]
    ELSE sat_loop(poly1, poly2, axes, i + 1)

\* has_collided
has_collided(poly1, poly2) == sat_loop(poly1, poly2, sat_axes(poly1, poly2), 1)

\* The axis-aligned rectangle with corners (x1, y1) and (x2, y2), its points
\* in sequence around it.
Rectangle(x1, y1, x2, y2) == << <<x1, y1>>, <<x2, y1>>, <<x2, y2>>, <<x1, y2>> >>

\* The rectangles of the grid with a width and a height.
Rectangles ==
    { Rectangle(c[1], c[2], c[3], c[4]) :
        c \in { d \in (0..MaxCoord) \X (0..MaxCoord) \X (0..MaxCoord) \X (0..MaxCoord) :
                  d[1] < d[3] /\ d[2] < d[4] } }

\* The two polygons are the caller's; loc holds them.
InitSAT ==
    /\ buffer = EDRBuffer(0, 0, 0, Hz(0, 1))
    /\ edr = EDR
    /\ edr_buffer = <<>>
    /\ now = 0
    /\ written = <<>>
    /\ last = Call("init", 0, 0, "", "")
    /\ hist = hist_other
    /\ pc = <<>>
    /\ loc \in [poly1 : Rectangles, poly2 : Rectangles]

\* has_collided(poly1, poly2) is called: last.ret is the value returned and
\* last.t the number of axes tested.
HasCollided ==
    LET r == has_collided(loc.poly1, loc.poly2) IN
    /\ last' = Call("has_collided", 0, r.tested, "", r.ret)
    /\ UNCHANGED <<buffer, edr, edr_buffer, now, written, hist, pc, loc>>

NextSAT == HasCollided

SpecSAT == InitSAT /\ [][NextSAT]_vars

----------------------------------------------------------------------------
(* SpecPolygons: has_collided applied to any two non-empty sequences of    *)
(* grid points: single points, segments, triangles, with repeated and      *)
(* collinear vertices and in either winding.                               *)

\* The numbers of vertices of the sequences.
VertexCounts == {1, 2, 3}

\* The y-coordinates of the grid: two rows.
GridRows == {0, 1}

GridPoints == (0..MaxPolyCoord) \X GridRows

VertexSequences == UNION { [1..n -> GridPoints] : n \in VertexCounts }

InitPolygons ==
    /\ buffer = EDRBuffer(0, 0, 0, Hz(0, 1))
    /\ edr = EDR
    /\ edr_buffer = <<>>
    /\ now = 0
    /\ written = <<>>
    /\ last = Call("init", 0, 0, "", "")
    /\ hist = hist_other
    /\ pc = <<>>
    /\ loc \in [poly1 : VertexSequences, poly2 : VertexSequences]

NextPolygons == HasCollided

SpecPolygons == InitPolygons /\ [][NextPolygons]_vars

----------------------------------------------------------------------------
(* SpecVehicleState: the EDRVehicleStateSensor of a session, reached       *)
(* through the EDR.  The tick thread stamps a sample with time.time() and  *)
(* then hands it to the buffer; a trigger from the collision callback's    *)
(* thread may fall between the two.  loc.timestamp is the stamp of the     *)
(* sample on its way, None when there is none.  written lists the calls    *)
(* made on the file system and on the CSV file by the last save.           *)

\* The arguments the sensor's buffer is constructed with.  The clock of this
\* specification counts the sample intervals of the rate 100.0 that
\* EDRVehicleStateSensor.__init__ passes: one sample per unit of time.
VehicleStateArgs == <<2, 1, Hz(1, 1)>>

\* A call on the file system or on the open file: it raises or is recorded.
FsCall(fs, entry) ==
    IF FsRaises(fs) THEN [fs |-> FsStep(fs), exc |-> "OSError"]
    ELSE [fs |-> FsWrite(fs, entry), exc |-> ""]

\* _EDRVehicleStateFile.write: the row of one sample.  The file's
\* event_timestamp is the buffer's, handed over by open; queue records the
\* queue the sample was read from and is no column of the file.
csv_row(b, item, which) ==
    LET offset == item[1] - b.event_timestamp[1] IN
    [ kind          |-> "row",
      timestamp     |-> item[1],
      offset        |-> offset,
      event_trigger |-> IF offset < 0 THEN 0 ELSE 100,
      queue         |-> which ]

\* One of the two for-loops of EDRBuffer.save_data where the items are
\* _EDRVehicleStateData: save_to_disk writes a row to the open file.
RECURSIVE vehicle_state_save_loop(_, _, _, _, _)
vehicle_state_save_loop(b, items, which, i, fs) ==
    IF i > Len(items) THEN [fs |-> fs, exc |-> ""]
    ELSE IF save_filter_raises(b, which) THEN [fs |-> fs, exc |-> "TypeError"]
    ELSE IF ~save_filter(b, which, items[i])
    THEN vehicle_state_save_loop(b, items, which, i + 1, fs)
    ELSE LET r == FsCall(fs, csv_row(b, items[i], which)) IN
         IF r.exc # "" THEN r
         ELSE vehicle_state_save_loop(b, items, which, i + 1, r.fs)

\* _EDRVehicleStateFile.open: the directory, the file, the header row.
EDRVehicleStateFile_open(fs) ==
    LET dir == FsCall(fs, [kind |-> "makedirs", path |-> "vehicle-state"]) IN
    IF dir.exc # "" THEN dir
    ELSE LET file == FsCall(dir.fs, [kind |-> "open"]) IN
         IF file.exc # "" THEN file
         ELSE FsCall(file.fs, [kind |-> "header"])

\* A save_data that leaves the file open.
EDRVehicleStateSensor_save_data_no_close(b, fs) ==
    LET opened == EDRVehicleStateFile_open(fs) IN
    IF opened.exc # "" THEN [buf |-> b, fs |-> opened.fs, exc |-> opened.exc]
    ELSE LET b1  == [b EXCEPT !.saving = TRUE]
             dir == FsCall(opened.fs, sensor_dir(b1))
         IN  IF dir.exc # "" THEN [buf |-> b1, fs |-> dir.fs, exc |-> dir.exc]
             ELSE LET pre == vehicle_state_save_loop(b1, b1.preevent_buffer, "pre", 1, dir.fs) IN
                  IF pre.exc # "" THEN [buf |-> b1, fs |-> pre.fs, exc |-> pre.exc]
                  ELSE LET post == vehicle_state_save_loop(b1, b1.postevent_buffer,
                                                           "post", 1, pre.fs) IN
                       IF post.exc # "" THEN [buf |-> b1, fs |-> post.fs, exc |-> post.exc]
                       ELSE [buf |-> [b1 EXCEPT !.saving = FALSE], fs |-> post.fs, exc |-> ""]

\* EDRVehicleStateSensor.save_data: self.file.open(...), then
\* super().save_data(path), which is EDRBuffer.save_data, then
\* self.file.close().  An exception leaves at the call that raised.
EDRVehicleStateSensor_save_data(b, fs) ==
    LET opened == EDRVehicleStateFile_open(fs) IN
    IF opened.exc # "" THEN [buf |-> b, fs |-> opened.fs, exc |-> opened.exc]
    ELSE LET b1  == [b EXCEPT !.saving = TRUE]
             dir == FsCall(opened.fs, sensor_dir(b1))
         IN  IF dir.exc # "" THEN [buf |-> b1, fs |-> dir.fs, exc |-> dir.exc]
             ELSE LET pre == vehicle_state_save_loop(b1, b1.preevent_buffer, "pre", 1, dir.fs) IN
                  IF pre.exc # "" THEN [buf |-> b1, fs |-> pre.fs, exc |-> pre.exc]
                  ELSE LET post == vehicle_state_save_loop(b1, b1.postevent_buffer,
                                                           "post", 1, pre.fs) IN
                       IF post.exc # "" THEN [buf |-> b1, fs |-> post.fs, exc |-> post.exc]
                       ELSE LET closed == FsCall(post.fs, [kind |-> "close"]) IN
                            [buf |-> [b1 EXCEPT !.saving = FALSE],
                             fs |-> closed.fs, exc |-> closed.exc]

InitVehicleState ==
    /\ buffer = EDRBuffer(1, VehicleStateArgs[1], VehicleStateArgs[2], VehicleStateArgs[3])
    /\ edr = EDR
    /\ edr_buffer = <<>>
    /\ now = 0
    /\ written = <<>>
    /\ last = Call("init", 0, 0, "", "")
    /\ hist = hist_other
    /\ pc = <<>>
    /\ loc = [timestamp |-> None]

\* The clock advances.
VsClock ==
    /\ now < MaxTime
    /\ now' = now + 1
    /\ last' = Call("tick", 0, now + 1, "", "")
    /\ written' = <<>>
    /\ UNCHANGED <<buffer, edr, edr_buffer, hist, pc, loc>>

\* EDRVehicleStateSensor.on_data: timestamp = time.time()
VsStamp ==
    /\ loc.timestamp = None
    /\ loc' = [loc EXCEPT !.timestamp = Some(now)]
    /\ last' = Call("time", 1, now, "", "")
    /\ written' = <<>>
    /\ UNCHANGED <<buffer, edr, edr_buffer, now, hist, pc>>

\* EDRVehicleStateSensor.on_data: self.edr_buffer.on_data(timestamp, data)
VsOnData ==
    /\ loc.timestamp # None
    /\ \E data \in DataValues :
          buffer' = EDRBuffer_on_data(buffer, loc.timestamp[1], data)
    /\ last' = Call("on_data", 1, loc.timestamp[1], "",
                    on_data_branch(buffer, loc.timestamp[1]))
    /\ loc' = [loc EXCEPT !.timestamp = None]
    /\ written' = <<>>
    /\ UNCHANGED <<edr, edr_buffer, now, hist, pc>>

\* EDR.on_event_trigger on an idle EDR, from the tick thread or from the
\* collision callback's: sensor.on_event_trigger(time.time())
VsOnEventTrigger ==
    /\ buffer.event_timestamp = None
    /\ LET r == EDRSensor_on_event_trigger(buffer, Some(now)) IN
       /\ buffer' = r.buf
       /\ last' = Call("on_event_trigger", 1, now, r.exc, "")
    /\ written' = <<>>
    /\ UNCHANGED <<edr, edr_buffer, now, hist, pc, loc>>

\* EDR.clear_event on a triggered EDR, from the tick thread.
VsClearEvent ==
    /\ loc.timestamp = None
    /\ buffer.event_timestamp # None
    /\ buffer' = EDRSensor_clear_event(buffer)
    /\ last' = Call("clear_event", 1, now, "", "")
    /\ written' = <<>>
    /\ UNCHANGED <<edr, edr_buffer, now, hist, pc, loc>>

\* EDR.save_data on a triggered EDR, from the tick thread: the sensor's
\* save_data and, when it returned, clear_event.
VsSaveData ==
    /\ loc.timestamp = None
    /\ buffer.event_timestamp # None
    /\ \E fault \in 0..MaxFault :
          LET r == EDRVehicleStateSensor_save_data(buffer, [written |-> <<>>, fault |-> fault]) IN
          /\ buffer' = IF r.exc = "" THEN EDRSensor_clear_event(r.buf) ELSE r.buf
          /\ written' = r.fs.written
          /\ last' = Call("save_data", 1, fault, r.exc, "")
    /\ UNCHANGED <<edr, edr_buffer, now, hist, pc, loc>>

NextVehicleState ==
    \/ VsClock
    \/ VsStamp
    \/ VsOnData
    \/ VsOnEventTrigger
    \/ VsClearEvent
    \/ VsSaveData

SpecVehicleState == InitVehicleState /\ [][NextVehicleState]_vars

----------------------------------------------------------------------------
(* SpecWorld: the session driver.  The game loop of drive.py runs, on the  *)
(* tick thread, the key handlers of DualControl.parse_events (trigger,     *)
(* save, clear, respawn) and World.tick; the simulator's callback thread   *)
(* runs CollisionSensor._on_collision, whose World.trigger_edr_event is    *)
(* two statements that the tick thread's handlers may fall between.  loc   *)
(* is the World object and pc the place of the collision callback.  Saves  *)
(* meet no I/O fault here; an exception that leaves a handler of the tick  *)
(* thread ends the game loop.                                              *)

\* EDR_SAVE_DELAY of world.py, in seconds.
EDR_SAVE_DELAY == 2

\* The reason World.check_for_near_misses gives.
NearMissReason == "Too close to Vulnerable Road User (VRU)"

\* The command line: --edr, --edr_autosave, and whether --near_miss_log_file
\* names a file.
WorldArgs == [edr : BOOLEAN, edr_autosave : BOOLEAN, near_miss_log_file : BOOLEAN]

\* World.__init__, up to its call of restart.  ready_printed records that
\* "EDR data ready" was printed for the event that is active, and
\* trigger_requests the number of calls of trigger_edr_event the last
\* check_for_near_misses made.
World(args) ==
    [ edr_enabled      |-> args.edr,
      edr_autosave     |-> args.edr_autosave,
      near_miss_logger |-> args.near_miss_log_file,
      edr_savetime     |-> None,
      edr_posttime     |-> SensorArgs(1)[2],
      running          |-> TRUE,
      ready_printed    |-> FALSE,
      trigger_requests |-> 0 ]

\* The first statement of World.trigger_edr_event.
World_trigger_edr_event_recorder(w, e, bufs, reason, time) ==
    IF ~w.edr_enabled THEN [edr |-> e, bufs |-> bufs, exc |-> ""]
    ELSE EDR_on_event_trigger(e, bufs, reason, time)

\* The second: self._edr_savetime = time.time() + self._edr_posttime + EDR_SAVE_DELAY
World_trigger_edr_event_savetime(w, time) ==
    IF ~w.edr_enabled THEN w
    ELSE [w EXCEPT !.edr_savetime = Some(time + w.edr_posttime + EDR_SAVE_DELAY)]

\* World.trigger_edr_event, run without interruption
World_trigger_edr_event(w, e, bufs, reason, time) ==
    CHOOSE x \in
        { [ world |-> IF r.exc # "" THEN w ELSE World_trigger_edr_event_savetime(w, time),
            edr |-> r.edr, bufs |-> r.bufs, exc |-> r.exc ] :
          r \in { World_trigger_edr_event_recorder(w, e, bufs, reason, time) } } : TRUE

\* World.save_edr_data
World_save_edr_data(w, e, bufs, fs) ==
    IF ~w.edr_enabled THEN [edr |-> e, bufs |-> bufs, fs |-> fs, exc |-> ""]
    ELSE EDR_save_data(e, bufs, fs)

\* World.clear_edr_event
World_clear_edr_event(w, e, bufs) ==
    IF ~w.edr_enabled THEN [edr |-> e, bufs |-> bufs]
    ELSE EDR_clear_event(e, bufs)

\* World.check_edr_autosave: ret tells what it did, "save", "print" or "".
World_check_edr_autosave(w, e, bufs, time, fs) ==
    IF w.edr_enabled /\ w.edr_savetime # None /\ time > w.edr_savetime[1]
    THEN LET w1 == [w EXCEPT !.edr_savetime = None] IN
         IF w.edr_autosave
         THEN CHOOSE x \in
                  { [ world |-> w1, edr |-> r.edr, bufs |-> r.bufs, fs |-> r.fs,
                      exc |-> r.exc, ret |-> "save" ] :
                    r \in { World_save_edr_data(w1, e, bufs, fs) } } : TRUE
         ELSE [ world |-> w1, edr |-> e, bufs |-> bufs, fs |-> fs,
                exc |-> "", ret |-> "print" ]
    ELSE [ world |-> w, edr |-> e, bufs |-> bufs, fs |-> fs, exc |-> "", ret |-> "" ]

\* World.generate_vehicle_state_data and generate_perception_data
World_generate_data(w, e, bufs, time) ==
    IF ~w.edr_enabled THEN bufs
    ELSE [s \in DOMAIN bufs |-> EDRBuffer_on_data(bufs[s], time, "d")]

\* The scenes World.check_for_near_misses meets: for each vulnerable road
\* user among the actors, in the order of world.get_actors(), whether
\* has_collided finds it within the threshold of the player.
VruScenes == UNION { [1..n -> BOOLEAN] : n \in 0..MaxVrus }

\* The loop of check_for_near_misses that goes on after a trigger also
\* when no near-miss logger is configured.
RECURSIVE near_miss_loop_no_return(_, _, _, _, _, _)
near_miss_loop_no_return(w, e, bufs, vrus, i, time) ==
    IF i > Len(vrus) THEN [world |-> w, edr |-> e, bufs |-> bufs, exc |-> ""]
    ELSE IF ~vrus[i] THEN near_miss_loop_no_return(w, e, bufs, vrus, i + 1, time)
    ELSE CHOOSE x \in
        { IF r.exc # "" THEN r
          ELSE near_miss_loop_no_return(r.world, r.edr, r.bufs, vrus, i + 1, time) :
          r \in { World_trigger_edr_event([w EXCEPT !.trigger_requests = @ + 1],
                                          e, bufs, NearMissReason, time) } } : TRUE

\* for actor in self.world.get_actors(): a road user within the threshold
\* makes the trigger request; with a near-miss logger the event is logged
\* and the loop goes on, without one the method returns.
RECURSIVE near_miss_loop(_, _, _, _, _, _)
near_miss_loop(w, e, bufs, vrus, i, time) ==
    IF i > Len(vrus) THEN [world |-> w, edr |-> e, bufs |-> bufs, exc |-> ""]
    ELSE IF ~vrus[i] THEN near_miss_loop(w, e, bufs, vrus, i + 1, time)
    ELSE CHOOSE x \in
        { IF r.exc # "" \/ ~w.near_miss_logger THEN r
          ELSE near_miss_loop(r.world, r.edr, r.bufs, vrus, i + 1, time) :
          r \in { World_trigger_edr_event([w EXCEPT !.trigger_requests = @ + 1],
                                          e, bufs, NearMissReason, time) } } : TRUE

\* World.check_for_near_misses
World_check_for_near_misses(w, e, bufs, vrus, time) ==
    IF ~w.near_miss_logger /\ (~w.edr_enabled \/ EDR_has_triggered(e))
    THEN [world |-> [w EXCEPT !.trigger_requests = 0], edr |-> e, bufs |-> bufs, exc |-> ""]
    ELSE near_miss_loop([w EXCEPT !.trigger_requests = 0], e, bufs, vrus, 1, time)

\* World.tick: its three calls one after the other, each on the outcome of
\* the one before (the sets hold that one outcome).
World_tick(w, e, bufs, vrus, time, fs) ==
    CHOOSE r \in
        { World_check_edr_autosave(n.world, n.edr, n.bufs, time, fs) :
            n \in { World_check_for_near_misses(w, e, bufs1, vrus, time) :
                      bufs1 \in { World_generate_data(w, e, bufs, time) } } } : TRUE

\* World.restart
World_restart_session(w, e, bufs) ==
    IF w.edr_enabled THEN World_restart(e, bufs)
    ELSE [edr |-> EDR_clear(e, bufs).edr, bufs |-> NewSensors]

\* The World after a handler of the tick thread: the game loop ends when
\* the handler raised, and ready_printed follows the active event.
AfterHandler(w, e, e1, exc, printed) ==
    [w EXCEPT !.running = (exc = ""),
              !.ready_printed = e1.triggered /\ (printed \/ (e.triggered /\ @))]

NoFault == [written |-> <<>>, fault |-> 0]

InitWorld ==
    /\ buffer = EDRBuffer(0, 0, 0, Hz(0, 1))
    /\ loc \in { World(args) : args \in WorldArgs }
    /\ edr = World_restart_session(loc, EDR, NewSensors).edr
    /\ edr_buffer = World_restart_session(loc, EDR, NewSensors).bufs
    /\ now = 0
    /\ written = <<>>
    /\ last = Call("init", 0, 0, "", "")
    /\ hist = hist_other
    /\ pc = [collision |-> "idle"]

\* The clock advances.
WorldClock ==
    /\ loc.running
    /\ now < MaxTime
    /\ now' = now + 1
    /\ last' = Call("clock", 0, now + 1, "", "")
    /\ written' = <<>>
    /\ UNCHANGED <<buffer, edr, edr_buffer, hist, pc, loc>>

\* One turn of the game loop with no key pressed: World.tick
WorldTick ==
    /\ loc.running
    /\ \E vrus \in VruScenes :
          \E r \in { World_tick(loc, edr, edr_buffer, vrus, now, NoFault) } :
          /\ edr' = r.edr
          /\ edr_buffer' = r.bufs
          /\ loc' = AfterHandler(r.world, edr, r.edr, r.exc, r.ret = "print")
          /\ written' = r.fs.written
          /\ last' = Call("tick", 0, now, r.exc, r.ret)
    /\ UNCHANGED <<buffer, now, hist, pc>>

\* K: world.trigger_edr_event("Manual Trigger")
KeyTrigger ==
    /\ loc.running
    /\ \E r \in { World_trigger_edr_event(loc, edr, edr_buffer, "Manual Trigger", now) } :
       /\ edr' = r.edr
       /\ edr_buffer' = r.bufs
       /\ loc' = AfterHandler(r.world, edr, r.edr, r.exc, FALSE)
       /\ last' = Call("trigger_edr_event", 0, now, r.exc, "Manual Trigger")
    /\ written' = <<>>
    /\ UNCHANGED <<buffer, now, hist, pc>>

\* J: world.save_edr_data()
KeySave ==
    /\ loc.running
    /\ \E r \in { World_save_edr_data(loc, edr, edr_buffer, NoFault) } :
       /\ edr' = r.edr
       /\ edr_buffer' = r.bufs
       /\ loc' = AfterHandler(loc, edr, r.edr, r.exc, FALSE)
       /\ written' = r.fs.written
       /\ last' = Call("save_edr_data", 0, now, r.exc, "")
    /\ UNCHANGED <<buffer, now, hist, pc>>

\* G: world.clear_edr_event()
KeyClear ==
    /\ loc.running
    /\ \E r \in { World_clear_edr_event(loc, edr, edr_buffer) } :
       /\ edr' = r.edr
       /\ edr_buffer' = r.bufs
       /\ loc' = AfterHandler(loc, edr, r.edr, "", FALSE)
       /\ last' = Call("clear_edr_event", 0, now, "", "")
    /\ written' = <<>>
    /\ UNCHANGED <<buffer, now, hist, pc>>

\* Backspace: world.restart()
KeyRestart ==
    /\ loc.running
    /\ \E r \in { World_restart_session(loc, edr, edr_buffer) } :
       /\ edr' = r.edr
       /\ edr_buffer' = r.bufs
       /\ loc' = AfterHandler(loc, edr, r.edr, "", FALSE)
       /\ last' = Call("restart", 0, now, "", "")
    /\ written' = <<>>
    /\ UNCHANGED <<buffer, now, hist, pc>>

\* CollisionSensor._on_collision on the callback thread, up to and with
\* self.edr.on_event_trigger(reason) of World.trigger_edr_event
CollisionTrigger ==
    /\ loc.running
    /\ pc.collision = "idle"
    /\ \E r \in { World_trigger_edr_event_recorder(loc, edr, edr_buffer, "Collision", now) } :
       /\ edr' = r.edr
       /\ edr_buffer' = r.bufs
       /\ loc' = [loc EXCEPT !.ready_printed = @ /\ edr.triggered]
       /\ last' = Call("on_collision", 0, now, r.exc, "Collision")
    /\ pc' = [pc EXCEPT !.collision = "savetime"]
    /\ written' = <<>>
    /\ UNCHANGED <<buffer, now, hist>>

\* The callback's assignment of self._edr_savetime
CollisionSavetime ==
    /\ loc.running
    /\ pc.collision = "savetime"
    /\ loc' = World_trigger_edr_event_savetime(loc, now)
    /\ pc' = [pc EXCEPT !.collision = "idle"]
    /\ last' = Call("on_collision_savetime", 0, now, "", "Collision")
    /\ written' = <<>>
    /\ UNCHANGED <<buffer, edr, edr_buffer, now, hist>>

NextWorld ==
    \/ WorldClock
    \/ WorldTick
    \/ KeyTrigger
    \/ KeySave
    \/ KeyClear
    \/ KeyRestart
    \/ CollisionTrigger
    \/ CollisionSavetime

SpecWorld == InitWorld /\ [][NextWorld]_vars

\* SpecAutosave: a session started with --edr and --edr_autosave in which
\* no save, clear or respawn key is pressed, with its scheduling: time
\* passes, the game loop keeps calling World.tick, and a collision callback
\* that has begun runs to its end.
InitAutosave ==
    /\ InitWorld
    /\ loc.edr_enabled
    /\ loc.edr_autosave

NextAutosave ==
    \/ WorldClock
    \/ WorldTick
    \/ KeyTrigger
    \/ CollisionTrigger
    \/ CollisionSavetime

\* ENABLED <<WorldTick>>_vars, written out: the game loop is running and
\* World.tick would change the state.
WorldTickEnabled ==
    /\ loc.running
    /\ \E vrus \in VruScenes :
          \E r \in { World_tick(loc, edr, edr_buffer, vrus, now, NoFault) } :
          <<r.edr, r.bufs, AfterHandler(r.world, edr, r.edr, r.exc, r.ret = "print"),
            r.fs.written, Call("tick", 0, now, r.exc, r.ret)>>
          # <<edr, edr_buffer, loc, written, last>>

\* WF_vars(WorldTick)
WorldTickFair == []<>(~WorldTickEnabled) \/ []<><<WorldTick>>_vars

SpecAutosave ==
    /\ InitAutosave
    /\ [][NextAutosave]_vars
    /\ WF_vars(WorldClock)
    /\ WF_vars(CollisionSavetime)
    /\ WorldTickFair

----------------------------------------------------------------------------
(* SpecRegistry: the EDR driven directly through its methods, add_sensor   *)
(* and clear included.  The sensor objects exist whether or not they are   *)
(* registered, and a caller may add any of them at any time, one that is   *)
(* registered already or one that was registered before a clear included.  *)

\* Largest number of registrations the EDR holds.
MaxSensors == 2

InitRegistry ==
    /\ buffer = EDRBuffer(0, 0, 0, Hz(0, 1))
    /\ edr = EDR
    /\ edr_buffer = NewSensors
    /\ now = 0
    /\ written = <<>>
    /\ last = Call("init", 0, 0, "", "")
    /\ hist = hist_other
    /\ pc = <<>>
    /\ loc = <<>>

RegistryClock ==
    /\ now < MaxRegistryTime
    /\ now' = now + 1
    /\ last' = Call("clock", 0, now + 1, "", "")
    /\ written' = <<>>
    /\ UNCHANGED <<buffer, edr, edr_buffer, hist, pc, loc>>

\* A sensor object stamps a sample and hands it to its buffer.
RegistryOnData ==
    \E s \in SensorIds :
        /\ edr_buffer' = [edr_buffer EXCEPT ![s] = EDRBuffer_on_data(@, now, "d")]
        /\ last' = Call("on_data", s, now, "", on_data_branch(edr_buffer[s], now))
        /\ written' = <<>>
        /\ UNCHANGED <<buffer, edr, now, hist, pc, loc>>

RegistryAddSensor ==
    \E s \in SensorIds :
        /\ Len(edr.sensors) < MaxSensors
        /\ edr' = EDR_add_sensor(edr, s)
        /\ last' = Call("add_sensor", s, now, "", "")
        /\ written' = <<>>
        /\ UNCHANGED <<buffer, edr_buffer, now, hist, pc, loc>>

RegistryOnEventTrigger ==
    LET r == EDR_on_event_trigger(edr, edr_buffer, "Manual Trigger", now) IN
    /\ edr' = r.edr
    /\ edr_buffer' = r.bufs
    /\ last' = Call("on_event_trigger", 0, now, r.exc, "Manual Trigger")
    /\ written' = <<>>
    /\ UNCHANGED <<buffer, now, hist, pc, loc>>

RegistryClearEvent ==
    LET r == EDR_clear_event(edr, edr_buffer) IN
    /\ edr' = r.edr
    /\ edr_buffer' = r.bufs
    /\ last' = Call("clear_event", 0, now, "", "")
    /\ written' = <<>>
    /\ UNCHANGED <<buffer, now, hist, pc, loc>>

RegistrySaveData ==
    LET r == EDR_save_data(edr, edr_buffer, NoFault) IN
    /\ edr' = r.edr
    /\ edr_buffer' = r.bufs
    /\ written' = r.fs.written
    /\ last' = Call("save_data", 0, now, r.exc, "")
    /\ UNCHANGED <<buffer, now, hist, pc, loc>>

RegistryClear ==
    LET r == EDR_clear(edr, edr_buffer) IN
    /\ edr' = r.edr
    /\ edr_buffer' = r.bufs
    /\ last' = Call("clear", 0, now, "", "")
    /\ written' = <<>>
    /\ UNCHANGED <<buffer, now, hist, pc, loc>>

NextRegistry ==
    \/ RegistryClock
    \/ RegistryOnData
    \/ RegistryAddSensor
    \/ RegistryOnEventTrigger
    \/ RegistryClearEvent
    \/ RegistrySaveData
    \/ RegistryClear

SpecRegistry == InitRegistry /\ [][NextRegistry]_vars

----------------------------------------------------------------------------
(* SpecLogger: one NearMissLogger, constructed at time 0, whose log_event  *)
(* is called for any vulnerable road user at any time.  loc is the logger  *)
(* object; its log_file holds, for every line written, the road user and   *)
(* the time of the call that wrote it.                                      *)

\* MIN_EVENT_INTERVAL of near_miss_logger.py, in seconds.
MIN_EVENT_INTERVAL == 1

\* Largest number of lines the log file receives.
MaxLines == 3

\* The ids of the vulnerable road users in the world.
VruIds == {1, 2}

\* NearMissLogger.__init__, called when time.time() is `time`
NearMissLogger(time) ==
    [ last_vru_id |-> -1, last_event_time |-> time, log_file |-> <<>> ]

\* Whether NearMissLogger.log_event returns at its early return.
log_event_skips(l, vru, time) ==
    l.last_vru_id = vru /\ time - l.last_event_time < MIN_EVENT_INTERVAL

\* NearMissLogger.log_event, called when time.time() is `time`
NearMissLogger_log_event(l, vru, time) ==
    IF log_event_skips(l, vru, time) THEN l
    ELSE [l EXCEPT !.last_event_time = time,
                   !.last_vru_id = vru,
                   !.log_file = Append(@, [vru |-> vru, time |-> time])]

InitLogger ==
    /\ buffer = EDRBuffer(0, 0, 0, Hz(0, 1))
    /\ edr = EDR
    /\ edr_buffer = NewSensors
    /\ now = 0
    /\ written = <<>>
    /\ last = Call("init", 0, 0, "", "")
    /\ hist = hist_other
    /\ pc = <<>>
    /\ loc = NearMissLogger(0)

LoggerClock ==
    /\ now < MaxTime
    /\ now' = now + 1
    /\ last' = Call("clock", 0, now + 1, "", "")
    /\ written' = <<>>
    /\ UNCHANGED <<buffer, edr, edr_buffer, hist, pc, loc>>

\* World.check_for_near_misses calls log_event for a road user.
LoggerLogEvent ==
    \E vru \in VruIds :
        /\ Len(loc.log_file) < MaxLines
        /\ loc' = NearMissLogger_log_event(loc, vru, now)
        /\ written' = IF log_event_skips(loc, vru, now) THEN <<>>
                      ELSE <<[vru |-> vru, time |-> now]>>
        /\ last' = Call("log_event", vru, now, "",
                        IF log_event_skips(loc, vru, now) THEN "skipped" ELSE "written")
        /\ UNCHANGED <<buffer, edr, edr_buffer, now, hist, pc>>

NextLogger ==
    \/ LoggerClock
    \/ LoggerLogEvent

SpecLogger == InitLogger /\ [][NextLogger]_vars

----------------------------------------------------------------------------
(* Properties of EDRBuffer, checked under SpecBuffer *)

LastN(q, n) == SubSeq(q, Len(q) - n + 1, Len(q))

\* The timestamps of a queue's items and of a list of written files.
ItemTimes(q) == [i \in 1..Len(q) |-> q[i][1]]

FileTimes(files) == [i \in 1..Len(files) |-> files[i].timestamp]

\* C3: while every call on the buffer since its construction was an on_data
\* call at least sample_interval after the one before, the pre-event ring
\* holds exactly the min(callCount, capacity) most recent samples, oldest first.
C3_RingHoldsMostRecent ==
    hist.ok =>
        buffer.preevent_buffer
            = LastN(hist.calls, Min(Len(hist.calls), buffer.maxlen))

\* More calls than the ring holds were made on a ring of at least two slots.
C3_Witness ==
    /\ hist.ok
    /\ buffer.maxlen >= 2
    /\ Len(hist.calls) >= buffer.maxlen + 2

\* C4 as claimed: on a triggered buffer every on_data(t) with
\* t <= T + postevent_time lands in the post-event queue, and every one with
\* t > T + postevent_time leaves the post-event queue as it was.
C4_AnyInWindowLands ==
    [][ (last'.op = "on_data" /\ buffer.event_timestamp # None) =>
            IF last'.t <= buffer.end_timestamp[1]
            THEN /\ Len(buffer'.postevent_buffer) = Len(buffer.postevent_buffer) + 1
                 /\ buffer'.postevent_buffer[Len(buffer'.postevent_buffer)][1] = last'.t
            ELSE buffer'.postevent_buffer = buffer.postevent_buffer ]_vars

\* C4 as amended: on a triggered buffer an on_data(t) with
\* t <= T + postevent_time that passes the other two guards (saving is False,
\* and t >= next_timestamp when that is set) is appended to the end of the
\* post-event queue; every other on_data (t > T + postevent_time, or turned
\* away by one of the two guards) changes neither queue.
C4_InWindowLandsUnlessGuarded ==
    [][ (last'.op = "on_data" /\ buffer.event_timestamp # None) =>
            IF /\ last'.t <= buffer.end_timestamp[1]
               /\ ~buffer.saving
               /\ (buffer.next_timestamp = None \/ last'.t >= buffer.next_timestamp[1])
            THEN /\ Len(buffer'.postevent_buffer) = Len(buffer.postevent_buffer) + 1
                 /\ buffer'.postevent_buffer[Len(buffer'.postevent_buffer)][1] = last'.t
                 /\ SubSeq(buffer'.postevent_buffer, 1, Len(buffer.postevent_buffer))
                       = buffer.postevent_buffer
                 /\ buffer'.preevent_buffer = buffer.preevent_buffer
            ELSE /\ buffer'.postevent_buffer = buffer.postevent_buffer
                 /\ buffer'.preevent_buffer = buffer.preevent_buffer ]_vars

\* A sample past the window has just been dropped from a triggered buffer
\* whose post-event queue holds a sample stamped at the window's very end.
C4_Witness ==
    /\ last.op = "on_data"
    /\ buffer.event_timestamp # None
    /\ last.t > buffer.end_timestamp[1]
    /\ buffer.postevent_buffer # <<>>
    /\ buffer.postevent_buffer[Len(buffer.postevent_buffer)][1] = buffer.end_timestamp[1]

\* C5: an on_data(t) with t < next_timestamp changes nothing of the buffer,
\* and an on_data(t) that passes all three guards sets next_timestamp to
\* t + sample_interval.
C5_RateLimit ==
    [][ last'.op = "on_data" =>
            /\ (buffer.next_timestamp # None /\ last'.t < buffer.next_timestamp[1])
               => buffer' = buffer
            /\ ( /\ ~buffer.saving
                 /\ (buffer.end_timestamp = None \/ last'.t <= buffer.end_timestamp[1])
                 /\ (buffer.next_timestamp = None \/ last'.t >= buffer.next_timestamp[1]) )
               => buffer'.next_timestamp = Some(last'.t + buffer.sample_interval) ]_vars

\* An on_data call has just been turned away as too soon by a buffer that
\* holds samples.
C5_Witness ==
    /\ last.op = "on_data"
    /\ last.ret = "too_soon"
    /\ buffer.preevent_buffer # <<>>
    /\ buffer.next_timestamp # None
    /\ last.t < buffer.next_timestamp[1]

\* C6 as claimed: whenever save_data has returned or raised, saving is False.
C6_SavingClearedAfterSave ==
    last.op = "save_data" => ~buffer.saving

\* C7: a save_data that returns on a triggered buffer has written, in this
\* order, the pre-event samples with timestamp >= start_timestamp and then
\* the post-event samples with timestamp <= end_timestamp, each once and in
\* buffer order, each with its offset from the event; no save_data, returning
\* or raising, modifies either queue.
C7_SaveWritesWindow ==
    [][ last'.op = "save_data" =>
            /\ buffer'.preevent_buffer = buffer.preevent_buffer
            /\ buffer'.postevent_buffer = buffer.postevent_buffer
            /\ (last'.exc = "" /\ buffer.event_timestamp # None) =>
                 LET InPre(item)  == item[1] >= buffer.start_timestamp[1]
                     InPost(item) == item[1] <= buffer.end_timestamp[1]
                 IN  /\ written'[1].kind = "makedirs"
                     /\ \A i \in 2..Len(written') :
                          /\ written'[i].kind = "item"
                          /\ written'[i].offset
                                = written'[i].timestamp - buffer.event_timestamp[1]
                     /\ FileTimes(Tail(written'))
                          = ItemTimes(SelectSeq(buffer.preevent_buffer, InPre))
                              \o ItemTimes(SelectSeq(buffer.postevent_buffer, InPost)) ]_vars

\* A save has returned having written samples of both queues, the first of
\* them stamped at the window's very start, and having left a pre-event
\* sample older than the window unwritten.
C7_Witness ==
    /\ last.op = "save_data"
    /\ last.exc = ""
    /\ buffer.event_timestamp # None
    /\ buffer.postevent_buffer # <<>>
    /\ Len(written) >= 3
    /\ Len(written) - 1 < Len(buffer.preevent_buffer) + Len(buffer.postevent_buffer)
    /\ written[2].timestamp = buffer.start_timestamp[1]

\* C9 as claimed: a clear that follows a save_data leaves the buffer in the
\* state of a freshly constructed one.
C9_FreshAfterSaveAndClear ==
    [][ (last.op = "save_data" /\ last'.op = "clear") =>
            buffer' = EDRBuffer(buffer.sensor_id, buffer.preevent_time,
                                buffer.postevent_time, buffer.max_sample_rate) ]_vars

\* C11: after every call on the buffer the post-event queue is empty when
\* event_timestamp is None, and an on_data call on a buffer whose
\* event_timestamp is set leaves the pre-event ring as it was.
C11_ModeByEventTimestamp ==
    [][ /\ buffer'.event_timestamp = None => buffer'.postevent_buffer = <<>>
        /\ (last'.op = "on_data" /\ buffer.event_timestamp # None)
              => buffer'.preevent_buffer = buffer.preevent_buffer ]_vars

\* A sample has just been queued after the event on a buffer whose ring
\* holds samples from before it.
C11_Witness ==
    /\ last.op = "on_data"
    /\ last.ret = "postevent"
    /\ buffer.event_timestamp # None
    /\ buffer.preevent_buffer # <<>>
    /\ Len(buffer.postevent_buffer) >= 2

\* C15: a clear called on the buffer in any state (untriggered or triggered,
\* before a save, after one that returned or one that raised) returns with
\* both queues empty and event_timestamp, start_timestamp, end_timestamp and
\* next_timestamp all None.
C15_ClearAlwaysResets ==
    [][ last'.op = "clear" =>
            /\ last'.exc = ""
            /\ buffer'.preevent_buffer = <<>>
            /\ buffer'.postevent_buffer = <<>>
            /\ buffer'.event_timestamp = None
            /\ buffer'.start_timestamp = None
            /\ buffer'.end_timestamp = None
            /\ buffer'.next_timestamp = None ]_vars

\* A clear has just been made on a buffer that a save which raised left
\* with its saving flag set.
C15_Witness ==
    /\ last.op = "clear"
    /\ buffer.saving
    /\ buffer.preevent_buffer = <<>>
    /\ buffer.next_timestamp = None

\* The least integer that is at least a / b, for b > 0.
CeilDiv(a, b) == (a + b - 1) \div b

\* C16 as claimed: the capacity of the pre-event ring is
\* ceil(preevent_time * max_sample_rate), also where the product is not an
\* integer.
C16_CapacityIsCeiling ==
    buffer.maxlen = CeilDiv(buffer.preevent_time * buffer.max_sample_rate.num,
                            buffer.max_sample_rate.den)

\* C17 as claimed: a buffer constructed with max_sample_rate <= 0 is
\* unthrottled: it turns no on_data call away as too soon after the sample
\* accepted before it.
C17_UnthrottledAtRateZero ==
    buffer.max_sample_rate.num <= 0 =>
        ~(last.op = "on_data" /\ last.ret = "too_soon")

\* Every item a save has written, of those in `files`, lies inside the
\* window of buffer b.
InsideWindow(b, files) ==
    \A i \in 1..Len(files) :
        files[i].kind = "item"
        => /\ b.start_timestamp[1] <= files[i].timestamp
           /\ files[i].timestamp <= b.end_timestamp[1]

\* C28 as claimed: every sample a save writes, from either queue, has
\* start_timestamp <= timestamp <= end_timestamp, whatever timestamps the
\* callers of on_data and on_event_trigger supplied.
C28_SavedInsideWindow ==
    [][ (last'.op = "save_data" /\ buffer.event_timestamp # None)
        => InsideWindow(buffer, written') ]_vars

\* The samples of b were stamped in call order around the trigger: no
\* pre-event sample is later than event_timestamp and no post-event sample
\* earlier.
StampedInOrder(b) ==
    /\ \A i \in 1..Len(b.preevent_buffer) : b.preevent_buffer[i][1] <= b.event_timestamp[1]
    /\ \A i \in 1..Len(b.postevent_buffer) : b.postevent_buffer[i][1] >= b.event_timestamp[1]

\* C28 as amended: every sample a save writes lies inside the window when the
\* buffer's samples were stamped in call order around the trigger; the save
\* itself only keeps pre-event samples older than start_timestamp and
\* post-event samples later than end_timestamp out.
C28_SavedInsideWindowInOrder ==
    [][ (last'.op = "save_data" /\ buffer.event_timestamp # None /\ StampedInOrder(buffer))
        => InsideWindow(buffer, written') ]_vars

\* A save has returned on a buffer stamped in order, having written a sample
\* stamped at the window's end and left a pre-event sample older than the
\* window unwritten.
C28_Witness ==
    /\ last.op = "save_data"
    /\ last.exc = ""
    /\ buffer.event_timestamp # None
    /\ StampedInOrder(buffer)
    /\ \E i \in 1..Len(written) :
          written[i].kind = "item" /\ written[i].timestamp = buffer.end_timestamp[1]
    /\ \E i \in 1..Len(buffer.preevent_buffer) :
          buffer.preevent_buffer[i][1] < buffer.start_timestamp[1]

----------------------------------------------------------------------------
(* Properties of the EDR, checked under Spec *)

\* C1: an on_event_trigger called while the EDR is triggered changes neither
\* the EDR (sensors, triggered, event_timestamp, reason) nor any field or
\* queue of any sensor's buffer.
C1_RetriggerIsNoOp ==
    [][ (last'.op = "on_event_trigger" /\ edr.triggered) =>
            /\ edr' = edr
            /\ edr_buffer' = edr_buffer ]_vars

\* A trigger with another reason has just been made, later than the event,
\* on a triggered EDR whose first sensor already holds post-event samples.
C1_Witness ==
    /\ last.op = "on_event_trigger"
    /\ edr.triggered
    /\ last.ret # edr.reason
    /\ last.t > edr.event_timestamp[1]
    /\ edr_buffer[1].postevent_buffer # <<>>

\* The place of a sensor in the EDR's list of sensors.
Registration(e, s) == CHOOSE i \in 1..Len(e.sensors) : e.sensors[i] = s

\* C8: a save_data that returns on a triggered EDR has made the event's
\* directory and written the reason first, then saved every registered sensor
\* exactly once in registration order (each sensor's directory, then the
\* samples of its window as they were before the save), and has left the EDR
\* idle: triggered False, event_timestamp None, reason empty, every
\* registered sensor's buffer cleared.
C8_SaveOrder ==
    [][ (last'.op = "save_data" /\ last'.exc = "" /\ edr.triggered) =>
            LET sensor_files == SubSeq(written', 3, Len(written'))
                dirs == SelectSeq(sensor_files, LAMBDA f : f.kind = "makedirs")
                FilesOf(s) == SelectSeq(sensor_files,
                                  LAMBDA f : f.kind = "item" /\ f.sensor_id = s)
                InPre(s)  == SelectSeq(edr_buffer[s].preevent_buffer,
                                  LAMBDA item : item[1] >= edr_buffer[s].start_timestamp[1])
                InPost(s) == SelectSeq(edr_buffer[s].postevent_buffer,
                                  LAMBDA item : item[1] <= edr_buffer[s].end_timestamp[1])
            IN  /\ written'[1] = [kind |-> "makedirs", event |-> edr.event_timestamp[1]]
                /\ written'[2] = [kind |-> "reason", text |-> edr.reason]
                /\ [i \in 1..Len(dirs) |-> dirs[i].sensor_id] = edr.sensors
                /\ \A i, j \in 1..Len(sensor_files) :
                      i < j => Registration(edr, sensor_files[i].sensor_id)
                                 <= Registration(edr, sensor_files[j].sensor_id)
                /\ \A i \in 1..Len(edr.sensors) :
                      LET s == edr.sensors[i] IN
                      /\ FileTimes(FilesOf(s)) = ItemTimes(InPre(s)) \o ItemTimes(InPost(s))
                      /\ edr_buffer'[s].preevent_buffer = <<>>
                      /\ edr_buffer'[s].postevent_buffer = <<>>
                      /\ edr_buffer'[s].event_timestamp = None
                      /\ edr_buffer'[s].start_timestamp = None
                      /\ edr_buffer'[s].end_timestamp = None
                      /\ edr_buffer'[s].next_timestamp = None
                /\ edr' = [edr EXCEPT !.triggered = FALSE,
                                      !.event_timestamp = None,
                                      !.reason = ""] ]_vars

\* A save has returned having written the reason and samples of both
\* sensors, and the EDR is idle.
C8_Witness ==
    /\ last.op = "save_data"
    /\ last.exc = ""
    /\ ~edr.triggered
    /\ Len(written) >= 6
    /\ written[2].kind = "reason"
    /\ written[2].text = "Collision"
    /\ \E i, j \in 3..Len(written) :
          /\ written[i].kind = "item" /\ written[i].sensor_id = 1
          /\ written[j].kind = "item" /\ written[j].sensor_id = 2

\* C14: a clear_event on an idle EDR changes neither the EDR nor any sensor
\* buffer; on a triggered EDR it leaves every registered sensor's buffer
\* with both queues empty and its event and rate-limit timestamps None, and
\* the EDR with triggered False, event_timestamp None and reason empty.
C14_ClearEvent ==
    [][ last'.op = "clear_event" =>
            IF ~edr.triggered
            THEN /\ edr' = edr
                 /\ edr_buffer' = edr_buffer
            ELSE /\ edr' = [edr EXCEPT !.triggered = FALSE,
                                       !.event_timestamp = None,
                                       !.reason = ""]
                 /\ \A i \in 1..Len(edr.sensors) :
                       LET s == edr.sensors[i] IN
                       edr_buffer'[s] = [edr_buffer[s] EXCEPT
                                            !.preevent_buffer = <<>>,
                                            !.postevent_buffer = <<>>,
                                            !.event_timestamp = None,
                                            !.start_timestamp = None,
                                            !.end_timestamp = None,
                                            !.next_timestamp = None] ]_vars

\* A clear_event has just been made on an idle EDR whose sensors hold
\* samples and remember when the next one is due.
C14_Witness ==
    /\ last.op = "clear_event"
    /\ ~edr.triggered
    /\ \A s \in SensorIds :
          /\ edr_buffer[s].preevent_buffer # <<>>
          /\ edr_buffer[s].next_timestamp # None

\* C13 as claimed: an EDR.save_data on a triggered EDR that raises from
\* within a sensor's save_data (the event directory and the reason are
\* written by then) leaves the EDR and every sensor's buffer as they were.
C13_FailedSaveChangesNothing ==
    [][ ( /\ last'.op = "save_data"
          /\ last'.exc # ""
          /\ Len(written') >= 2
          /\ edr.triggered )
        => /\ edr' = edr
           /\ edr_buffer' = edr_buffer ]_vars

----------------------------------------------------------------------------
(* Properties of the threads *)

\* Thread p is past the check of EDR.on_event_trigger and has not returned.
InTrigger(p) ==
    pc[p] \in {"trigger_set", "trigger_time", "trigger_reason", "trigger_sensors"}

\* C2 as claimed: the check-and-set of EDR.on_event_trigger is atomic, so at
\* most one of the calls made from the tick thread and from the collision
\* callback's thread is past the check at a time, and no sensor buffer's
\* on_event_trigger is run a second time (which its assert would fail).
C2_AtomicCheckAndSet ==
    /\ ~(InTrigger("tick") /\ InTrigger("collision"))
    /\ \A p \in TriggerThreads : loc[p].exc # "AssertionError"

\* C10 as claimed: while the tick thread's save_data is iterating a buffer
\* (from saving = True to saving = False), no step of any thread changes
\* either queue of that buffer.
C10_NoAppendDuringSave ==
    [][ \A s \in SensorIds :
            (pc["tick"] = "save_items" /\ loc["tick"].s = s /\ edr_buffer[s].saving) =>
                /\ edr_buffer'[s].preevent_buffer = edr_buffer[s].preevent_buffer
                /\ edr_buffer'[s].postevent_buffer = edr_buffer[s].postevent_buffer ]_vars

\* C29 as claimed: under every interleaving of the producer's on_data with
\* the tick thread's clear_event and on_event_trigger, a buffer's post-event
\* queue is empty whenever its event_timestamp is None: no sample accepted
\* during one event is left in the queue after the clear.
C29_PostEventEmptyWhenIdle ==
    \A s \in SensorIds :
        edr_buffer[s].event_timestamp = None => edr_buffer[s].postevent_buffer = <<>>

\* The samples a buffer holds, the pre-event ring's before the post-event
\* queue's.
Samples(b) == ItemTimes(b.preevent_buffer) \o ItemTimes(b.postevent_buffer)

\* Consecutive samples are at least sample_interval apart.
Spaced(b) ==
    \A i \in 1..(Len(Samples(b)) - 1) : Samples(b)[i + 1] >= Samples(b)[i] + b.sample_interval

\* C30 as claimed: in every state the samples of a buffer, the pre-event
\* ring's followed by the post-event queue's, have strictly increasing
\* timestamps with consecutive ones at least sample_interval apart.
C30_SamplesSpaced ==
    \A s \in SensorIds : Spaced(edr_buffer[s])

----------------------------------------------------------------------------
(* Properties of EDRLoader, checked under SpecLoader *)

\* The entries of a list whose sensor is constructed: labelled and not failing.
Constructible(kind, entries) ==
    { LoadedSensor(kind, entries[i]) :
        i \in { j \in 1..Len(entries) : entries[j].label # "" /\ ~entries[j].fails } }

\* C12 as claimed: after load_sensors has read a configuration, every entry
\* whose sensor can be constructed is registered with the EDR, wherever a
\* failing entry stands.
C12_GoodEntriesAllLoaded ==
    (last.op = "load_sensors" /\ loc.readable) =>
        \A sensor \in Constructible("lidar3d", loc.lidars)
                         \cup Constructible("camera", loc.cameras) :
            \E i \in 1..Len(edr.sensors) : edr.sensors[i] = sensor

\* The sensors of a list's labelled entries, in the order of the list.
RECURSIVE Labelled(_, _)
Labelled(kind, entries) ==
    IF entries = <<>> THEN <<>>
    ELSE IF Head(entries).label = "" THEN Labelled(kind, Tail(entries))
    ELSE <<LoadedSensor(kind, Head(entries))>> \o Labelled(kind, Tail(entries))

\* A list without its entries that have no label.
WithoutBlank(entries) == SelectSeq(entries, LAMBDA entry : entry.label # "")

\* C38 as claimed: after load_sensors has read a configuration, the entries
\* without label were passed over without effect on the others, and the
\* sensors of the EDR are those of the labelled entries in the order of the
\* file, all lidars before all cameras.
C38_LabelledEntriesInOrder ==
    (last.op = "load_sensors" /\ loc.readable) =>
        /\ edr.sensors = Labelled("lidar3d", loc.lidars) \o Labelled("camera", loc.cameras)
        /\ edr.sensors
              = EDRLoader_load_sensors(EDR, [loc EXCEPT !.lidars = WithoutBlank(@),
                                                        !.cameras = WithoutBlank(@)]).edr.sensors

----------------------------------------------------------------------------
(* Properties of has_collided, checked under SpecSAT *)

\* The closed extent of a polygon along coordinate k, and whether two
\* closed extents share a point.
Extent(poly, k) ==
    LET coords == {poly[i][k] : i \in 1..Len(poly)}
    IN  [lo |-> CHOOSE x \in coords : \A y \in coords : x <= y,
         hi |-> CHOOSE x \in coords : \A y \in coords : x >= y]

ExtentsMeet(a, b) == a.lo <= b.hi /\ b.lo <= a.hi

\* Whether the projections of the two polygons on axis i are disjoint.
Separates(poly1, poly2, i) ==
    LET axis == sat_axes(poly1, poly2)[i]
        p1 == project(poly1, axis)
        p2 == project(poly2, axis)
    IN  p1[2] < p2[1] \/ p2[2] < p1[1]

\* C18: on two axis-aligned rectangles of the grid has_collided returns True
\* exactly when the closed x-extents meet and the closed y-extents meet; it
\* returns False at the first edge-normal axis on which the projections are
\* disjoint, having tested no axis after it, and True only after all axes
\* of both polygons were tested and none separated them.
C18_HasCollidedIsExactOverlap ==
    last.op = "has_collided" =>
        LET poly1 == loc.poly1
            poly2 == loc.poly2
            n == Len(poly1) + Len(poly2)
        IN  /\ (last.ret = "True") <=>
                  ( /\ ExtentsMeet(Extent(poly1, 1), Extent(poly2, 1))
                    /\ ExtentsMeet(Extent(poly1, 2), Extent(poly2, 2)) )
            /\ last.ret = "False" =>
                  /\ Separates(poly1, poly2, last.t)
                  /\ \A i \in 1..last.t - 1 : ~Separates(poly1, poly2, i)
            /\ last.ret = "True" =>
                  /\ last.t = n
                  /\ \A i \in 1..n : ~Separates(poly1, poly2, i)

\* has_collided has just returned False for two rectangles that the first
\* axis did not separate: their y-extents touch in one point and their
\* x-extents are apart.
C18_Witness ==
    /\ last.op = "has_collided"
    /\ last.ret = "False"
    /\ last.t > 1
    /\ Extent(loc.poly1, 2).hi = Extent(loc.poly2, 2).lo
    /\ ~ExtentsMeet(Extent(loc.poly1, 1), Extent(loc.poly2, 1))

----------------------------------------------------------------------------
(* Properties of has_collided, checked under SpecPolygons *)

\* C36: has_collided(p, q) = has_collided(q, p) for all vertex sequences p
\* and q of the grid.
C36_HasCollidedSymmetric ==
    last.op = "has_collided" =>
        last.ret = has_collided(loc.poly2, loc.poly1).ret

\* has_collided has returned False at an axis of the second argument, none
\* of the first argument's axes having separated the two.
C36_Witness ==
    /\ last.op = "has_collided"
    /\ last.ret = "False"
    /\ last.t > Len(loc.poly1)
    /\ Len(loc.poly1) = 3
    /\ Len(loc.poly2) = 3

\* The axis of a zero-length edge.
ZeroAxis == <<0, 0>>

\* C37: for any two non-empty vertex sequences has_collided returns True or
\* False; on the zero axis of a zero-length edge both polygons project to
\* the single point 0 and the projections overlap, and has_collided never
\* returns False at such an axis.
C37_ZeroAxisNeverSeparates ==
    last.op = "has_collided" =>
        LET axes == sat_axes(loc.poly1, loc.poly2) IN
        /\ last.ret \in {"True", "False"}
        /\ last.exc = ""
        /\ \A i \in 1..Len(axes) :
              axes[i] = ZeroAxis =>
                  /\ project(loc.poly1, axes[i]) = <<0, 0>>
                  /\ project(loc.poly2, axes[i]) = <<0, 0>>
                  /\ overlap(project(loc.poly1, axes[i]), project(loc.poly2, axes[i]))
        /\ last.ret = "False" => axes[last.t] # ZeroAxis

\* has_collided has passed the zero axis of a repeated vertex and returned
\* False at a later axis.
C37_Witness ==
    /\ last.op = "has_collided"
    /\ last.ret = "False"
    /\ \E i \in 1..(last.t - 1) : sat_axes(loc.poly1, loc.poly2)[i] = ZeroAxis

----------------------------------------------------------------------------
(* Properties of EDRVehicleStateSensor, checked under SpecVehicleState *)

\* C19 as claimed: in the CSV file a save writes, the Event Trigger column
\* is 0 in every row of a sample read from the pre-event ring and 100 in
\* every row of a sample read from the post-event queue.
C19_EventTriggerColumn ==
    \A i \in 1..Len(written) :
        written[i].kind = "row" =>
            written[i].event_trigger = IF written[i].queue = "pre" THEN 0 ELSE 100

\* C20: a save of the vehicle-state sensor that returns has opened the CSV
\* file once, written the header next, then one row for each pre-event
\* sample with timestamp >= start_timestamp followed by one row for each
\* post-event sample with timestamp <= end_timestamp and for no other, the
\* rows' timestamps never decreasing, and closed the file as its last call,
\* so that every row lies between the open and the close.
C20_SingleFileSave ==
    [][ (last'.op = "save_data" /\ last'.exc = "") =>
            LET w == written'
                Indices(kind) == {i \in 1..Len(w) : w[i].kind = kind}
                rows == SelectSeq(w, LAMBDA e : e.kind = "row")
                InPre(item)  == item[1] >= buffer.start_timestamp[1]
                InPost(item) == item[1] <= buffer.end_timestamp[1]
            IN  /\ Cardinality(Indices("open")) = 1
                /\ Indices("close") = {Len(w)}
                /\ \A o \in Indices("open") :
                      /\ Indices("header") = {o + 1}
                      /\ \A i \in Indices("row") : o + 1 < i /\ i < Len(w)
                /\ FileTimes(rows)
                      = ItemTimes(SelectSeq(buffer.preevent_buffer, InPre))
                          \o ItemTimes(SelectSeq(buffer.postevent_buffer, InPost))
                /\ \A i \in 1..Len(rows) - 1 : rows[i].timestamp <= rows[i + 1].timestamp ]_vars

\* A save has returned having written rows of samples of both queues.
C20_Witness ==
    /\ last.op = "save_data"
    /\ last.exc = ""
    /\ written # <<>>
    /\ written[Len(written)].kind = "close"
    /\ \E i, j \in 1..Len(written) :
          /\ i < j
          /\ written[i].kind = "row" /\ written[i].queue = "pre"
          /\ written[j].kind = "row" /\ written[j].queue = "post"

\* on_data has put a sample stamped t at the tail of one of the queues.
Stored(b, b1, t) ==
    \E data \in DataValues :
        \/ b1.postevent_buffer = Append(b.postevent_buffer, <<t, data>>)
        \/ b1.preevent_buffer = deque_append(b.preevent_buffer, b.maxlen, <<t, data>>)
           /\ b.maxlen > 0
           /\ b.event_timestamp = None

\* C34 as claimed: every sample EDRVehicleStateSensor.on_data hands to the
\* buffer while the buffer is not saving and the post-event window has not
\* closed is stored in one of the queues, however soon after the sample
\* before it.
C34_NoThrottling ==
    [][ ( /\ last'.op = "on_data"
          /\ ~buffer.saving
          /\ (buffer.end_timestamp = None \/ last'.t <= buffer.end_timestamp[1]) )
        => Stored(buffer, buffer', last'.t) ]_vars

----------------------------------------------------------------------------
(* Properties of the session driver, checked under SpecWorld *)

\* The active event is ready to save: its post-event window and the save
\* delay have elapsed.
ReadyToSave ==
    /\ edr.triggered
    /\ edr.event_timestamp # None
    /\ now > edr.event_timestamp[1] + loc.edr_posttime + EDR_SAVE_DELAY

\* C21 as claimed: with autosave off, whenever World.tick has run its
\* check_edr_autosave on an event that is ready to save and was neither saved
\* nor cleared, the "EDR data ready" notification has been given for it.
C21_ReadyNotificationStanding ==
    (last.op = "tick" /\ ~loc.edr_autosave /\ ReadyToSave) => loc.ready_printed

\* C22 as claimed: neither the save key nor check_edr_autosave reaches
\* EDR.save_data while event_timestamp is None, where
\* datetime.fromtimestamp(self.event_timestamp) raises TypeError.
C22_SaveOnlyWhileTriggered ==
    ~(last.op \in {"save_edr_data", "tick"} /\ last.exc = "TypeError")

\* C23 as claimed: a World.trigger_edr_event called while the EDR is
\* triggered changes neither the EDR, nor a sensor's buffer, nor the pending
\* autosave deadline _edr_savetime that is pending.
C23_RetriggerKeepsDeadline ==
    [][ (last'.op = "trigger_edr_event" /\ edr.triggered /\ loc.edr_savetime # None)
        => /\ edr' = edr
           /\ edr_buffer' = edr_buffer
           /\ loc'.edr_savetime = loc.edr_savetime ]_vars

\* C24 as claimed: with the EDR and autosave enabled, an event whose autosave
\* deadline lies before the end of the clock's range is eventually saved:
\* the EDR returns to Idle, whatever trigger requests arrive meanwhile.
C24_EveryEventSaved ==
    ( /\ edr.triggered
      /\ loc.edr_savetime # None
      /\ loc.edr_savetime[1] < MaxTime ) ~> ~edr.triggered

\* C25 as claimed: whenever check_edr_autosave saves a triggered EDR, the
\* time is later than event_timestamp + postevent_time.
C25_AutosaveAfterWindow ==
    [][ (last'.op = "tick" /\ last'.ret = "save" /\ last'.exc = "" /\ edr.triggered)
        => now > edr.event_timestamp[1] + loc.edr_posttime ]_vars

\* C31 as claimed: in every state of the session an autosave deadline is
\* pending only for an active event: _edr_savetime is not None only while
\* the EDR is triggered, also after the save key, the clear key and a respawn.
C31_DeadlineOnlyWhileTriggered ==
    loc.edr_savetime # None => edr.triggered

\* C35: when no near-miss logger is configured, a run of
\* World.check_for_near_misses makes at most one call of trigger_edr_event,
\* and none when it starts with the EDR triggered or disabled.
C35_WatchdogOneRequest ==
    /\ []((last.op = "tick" /\ ~loc.near_miss_logger) => loc.trigger_requests <= 1)
    /\ [][ ( /\ last'.op = "tick"
             /\ ~loc.near_miss_logger
             /\ (~loc.edr_enabled \/ edr.triggered) )
           => loc'.trigger_requests = 0 ]_vars

\* Without a logger, a tick's watchdog has made its one request and the EDR
\* was triggered by it.
C35_Witness ==
    /\ last.op = "tick"
    /\ ~loc.near_miss_logger
    /\ loc.edr_enabled
    /\ loc.trigger_requests = 1
    /\ edr.triggered
    /\ edr.reason = NearMissReason
    /\ edr.event_timestamp = Some(now)

----------------------------------------------------------------------------
(* Properties of the EDR's registry, checked under SpecRegistry *)

\* C26 as claimed: over every sequence of add_sensor, on_event_trigger,
\* clear_event, save_data and clear, the assertion of
\* EDRBuffer.on_event_trigger (event_timestamp is None) never fails.
C26_BufferNeverRetriggered ==
    ~(last.op = "on_event_trigger" /\ last.exc = "AssertionError")

\* C27 as claimed: in every state each registered sensor's buffer agrees with
\* the EDR: it has the EDR's event_timestamp, and when that is set its window
\* runs from event_timestamp - preevent_time to event_timestamp + postevent_time.
C27_BuffersAgreeWithRecorder ==
    \A i \in 1..Len(edr.sensors) :
        LET b == edr_buffer[edr.sensors[i]] IN
        /\ b.event_timestamp = edr.event_timestamp
        /\ edr.event_timestamp # None
           => /\ b.start_timestamp = Some(edr.event_timestamp[1] - b.preevent_time)
              /\ b.end_timestamp = Some(edr.event_timestamp[1] + b.postevent_time)

\* C32: after every call of add_sensor, on_event_trigger, clear_event,
\* save_data and clear, returned or raised, triggered is True exactly when
\* event_timestamp is set and reason is "" while the EDR is Idle; the EDR
\* goes from Idle to Triggered only in on_event_trigger and from Triggered
\* to Idle only in clear_event, save_data or clear.
C32_RecorderStateMachine ==
    /\ [](edr.triggered <=> edr.event_timestamp # None)
    /\ [](~edr.triggered => edr.reason = "")
    /\ [][ /\ (~edr.triggered /\ edr'.triggered) => last'.op = "on_event_trigger"
           /\ (edr.triggered /\ ~edr'.triggered)
              => last'.op \in {"clear_event", "save_data", "clear"} ]_vars

\* A save has just written a triggered EDR's event and returned it to Idle.
C32_Witness ==
    /\ last.op = "save_data"
    /\ last.exc = ""
    /\ written # <<>>
    /\ ~edr.triggered
    /\ edr.event_timestamp = None
    /\ edr.sensors # <<>>

----------------------------------------------------------------------------
(* Properties of NearMissLogger, checked under SpecLogger *)

\* C33 as claimed: over every sequence of log_event calls, calls for other
\* road users in between included, no two lines of the log are written for
\* the same road user less than MIN_EVENT_INTERVAL apart, and a call that is
\* suppressed changes neither last_event_time nor last_vru_id.
C33_NoRepeatedEntries ==
    /\ [](\A i, j \in 1..Len(loc.log_file) :
            (i < j /\ loc.log_file[i].vru = loc.log_file[j].vru)
            => loc.log_file[j].time - loc.log_file[i].time >= MIN_EVENT_INTERVAL)
    /\ [][ (last'.op = "log_event" /\ last'.ret = "skipped")
            => /\ loc'.last_event_time = loc.last_event_time
               /\ loc'.last_vru_id = loc.last_vru_id ]_vars

====
